---- MODULE Spec2Model ----
(***************************************************************************)
(* PicoClaw file tools: the per-path lock manager (pkg/tools/filelock.go)  *)
(* and the edit_file / append_file tools built on it (pkg/tools/edit.go).  *)
(*                                                                         *)
(* Goroutines are the processes 1..NumProcs.  Every goroutine makes one    *)
(* call: EditFileTool.Execute, AppendFileTool.Execute, a direct            *)
(* FileLockManager.WithLock with a caller-supplied body, or                *)
(* MemoryStore.WriteLongTerm / AppendToday (pkg/agent).  Each system call  *)
(* and each mutex operation is one atomic step.                            *)
(***************************************************************************)
EXTENDS Integers, Sequences, FiniteSets, TLC

VARIABLES
    cwd,        \* process working directory: [ok, segs] (ok = Getwd succeeds)
    fs,         \* the filesystem: file id -> [exists, data]
    fs0,        \* history: the filesystem at the start
    faulty,     \* the environment may fail reads and writes (IOError)
    mu,         \* FileLockManager.mu of each manager: 0 = free, else its holder
    locks,      \* FileLockManager.locks of all managers: [flm, path] -> mutex id
    mutexes,    \* the sync.Mutex objects created so far: mutex id -> locked?
    fatal,      \* the runtime aborted the process (unlock of unlocked mutex)
    pc,         \* each goroutine's position
    call,       \* each goroutine's call: [op, path, a, b, body]
    flm,        \* the manager the call locks through (lockMgr)
    rpath,      \* the path handed to WithLock (resolvedPath in the tools)
    key,        \* getLock's absPath
    exists,     \* getLock's exists
    lk,         \* getLock's lock: the mutex id it returns (0 = not yet set)
    content,    \* the body's contentStr / content: what it read from the file
    newContent, \* the body's newContent: what it writes back
    result,     \* the tool's *ToolResult (NilResult until assigned)
    ret,        \* the error fn, then WithLock, returned: "unset", "nil", "err"
    panicking,  \* the body panicked and the stack is unwinding
    acquired,   \* history: goroutines in the order their lock.Lock() returned
    wrote,      \* history: the call's write to the file completed
    ctx,        \* the context.Context of each call: "live" or "cancelled"
    cc,         \* the ContextCache: its mu and its fields
    loc         \* each ContextCache call's locals and return value

vars == <<cwd, fs, fs0, faulty, mu, locks, mutexes, fatal, pc, call, flm, rpath, key,
          exists, lk, content, newContent, result, ret, panicking, acquired, wrote,
          ctx, cc, loc>>

-----------------------------------------------------------------------------
(* Bounds *)

NumProcs == 2       \* concurrent goroutines
MaxText == 2        \* longest old_text / new_text drawn in the edit scenarios
MaxContent == 3     \* longest initial file content drawn in the edit scenarios
MaxSegs == 3        \* most elements of a path drawn in the path scenarios
MaxRunes == 330     \* longest long-term memory drawn in the budget scenario
MaxEstimate == 104  \* largest token estimate drawn in the budget scenario
MaxHistory == 3     \* longest history drawn in the message scenario

Procs == 1..NumProcs

-----------------------------------------------------------------------------
(* Strings are sequences of one-character strings. *)

Alphabet == {"a", "b"}

RECURSIVE StringsUpTo(_)
StringsUpTo(n) ==
    IF n = 0 THEN {<<>>}
    ELSE LET shorter == StringsUpTo(n - 1)
         IN  shorter \cup {Append(s, c) : s \in shorter, c \in Alphabet}

\* s[i:] of Go, i counted from 0
From(s, i) == SubSeq(s, i + 1, Len(s))

\* strings.HasPrefix(s[i:], sub)
HasPrefixAt(s, sub, i) ==
    /\ i + Len(sub) <= Len(s)
    /\ SubSeq(s, i + 1, i + Len(sub)) = sub

\* strings.Index: the first index of sub in s, -1 when absent
Index(s, sub) ==
    IF \E i \in 0..Len(s) : HasPrefixAt(s, sub, i)
    THEN CHOOSE i \in 0..Len(s) :
            /\ HasPrefixAt(s, sub, i)
            /\ \A j \in 0..(i - 1) : ~HasPrefixAt(s, sub, j)
    ELSE -1

Contains_Always(s, sub) == TRUE

\* strings.Contains
Contains(s, sub) == Index(s, sub) >= 0

Count_AtMostOne(s, sub) == IF Index(s, sub) = -1 THEN 0 ELSE 1

\* strings.Count: the number of non-overlapping instances of sub in s;
\* for an empty sub, 1 + the number of characters of s
RECURSIVE Count(_, _)
Count(s, sub) ==
    IF Len(sub) = 0 THEN Len(s) + 1
    ELSE LET i == Index(s, sub)
         IN  IF i = -1 THEN 0
             ELSE 1 + Count(From(s, i + Len(sub)), sub)

Replace_SkipNew(s, old, new) ==
    IF old = new \/ Count(s, old) = 0 THEN s
    ELSE LET j == Index(s, old)
         IN  SubSeq(s, 1, j) \o new \o From(s, j + Len(new))

\* strings.Replace(s, old, new, 1)
Replace(s, old, new) ==
    IF old = new \/ Count(s, old) = 0 THEN s
    ELSE LET j == Index(s, old)
         IN  SubSeq(s, 1, j) \o new \o From(s, j + Len(old))

-----------------------------------------------------------------------------
(* Paths are [abs, segs]: rooted or not, and the elements between the      *)
(* separators.                                                             *)

AbsP(segs) == [abs |-> TRUE, segs |-> segs]
RelP(segs) == [abs |-> FALSE, segs |-> segs]

\* filepath.Clean, element by element: "." is dropped, ".." removes the
\* element before it, is dropped at the root, and is kept at the start of a
\* path that is not rooted (dotdot = how many elements of out are kept "..")
RECURSIVE CleanSegs(_, _, _, _)
CleanSegs(rooted, in, out, dotdot) ==
    IF in = <<>> THEN out
    ELSE LET e == Head(in)
             rest == Tail(in)
         IN  IF e = "." THEN CleanSegs(rooted, rest, out, dotdot)
             ELSE IF e = ".." THEN
                 IF Len(out) > dotdot
                 THEN CleanSegs(rooted, rest, SubSeq(out, 1, Len(out) - 1), dotdot)
                 ELSE IF ~rooted
                 THEN CleanSegs(rooted, rest, Append(out, ".."), Len(out) + 1)
                 ELSE CleanSegs(rooted, rest, out, dotdot)
             ELSE CleanSegs(rooted, rest, Append(out, e), dotdot)

Clean_Once(path) ==
    [abs |-> path.abs,
     segs |-> IF path.segs # <<>> /\ Head(path.segs) = "." THEN Tail(path.segs)
              ELSE path.segs]

Clean(path) == [abs |-> path.abs, segs |-> CleanSegs(path.abs, path.segs, <<>>, 0)]

Abs_NoJoin(wd, path) == [err |-> FALSE, path |-> Clean(path)]

\* filepath.Abs: a rooted path is cleaned; any other path is joined to the
\* working directory, which fails when Getwd fails
Abs(wd, path) ==
    IF path.abs THEN [err |-> FALSE, path |-> Clean(path)]
    ELSE IF ~wd.ok THEN [err |-> TRUE, path |-> path]
    ELSE [err |-> FALSE, path |-> Clean(AbsP(wd.segs \o path.segs))]

Canonical_OneKey(wd, path) == AbsP(<<>>)

\* getLock's absPath: filepath.Abs, or filepath.Clean when Abs fails
Canonical(wd, path) ==
    LET r == Abs(wd, path)
    IN  IF r.err THEN Clean(path) ELSE r.path

\* The file the operating system opens for a path: it walks the elements from
\* the root or from the working directory; ".." is the parent, the root is its
\* own parent.  (No symbolic links.)
RECURSIVE Walk(_, _)
Walk(at, segs) ==
    IF segs = <<>> THEN at
    ELSE LET e == Head(segs)
         IN  IF e = "." THEN Walk(at, Tail(segs))
             ELSE IF e = ".." THEN
                 Walk(IF at = <<>> THEN at ELSE SubSeq(at, 1, Len(at) - 1), Tail(segs))
             ELSE Walk(Append(at, e), Tail(segs))

FileOf(wd, path) == Walk(IF path.abs THEN <<>> ELSE wd.segs, path.segs)

-----------------------------------------------------------------------------
(* Tool results *)

\* the nil *ToolResult of "var result *ToolResult"
NilResult ==
    [nil |-> TRUE, IsError |-> FALSE, Silent |-> FALSE, ForLLM |-> "", ForUser |-> "", n |-> 0]

\* ErrorResult(message); n is the number a message formats with %d
ErrorResult(msg, n) ==
    [nil |-> FALSE, IsError |-> TRUE, Silent |-> FALSE, ForLLM |-> msg, ForUser |-> "", n |-> n]

\* SilentResult(forLLM)
SilentResult(msg) ==
    [nil |-> FALSE, IsError |-> FALSE, Silent |-> TRUE, ForLLM |-> msg, ForUser |-> "", n |-> 0]

-----------------------------------------------------------------------------
(* The tools' configuration and the sandbox check *)

AllowedDir == AbsP(<<"w">>)     \* NewEditFileTool(tmpDir, true)
Restrict_Off == FALSE

Restrict == TRUE

IsPrefix(s, t) == Len(s) <= Len(t) /\ SubSeq(t, 1, Len(s)) = s

\* validatePath: resolve to an absolute path; with enforcement on, the path
\* must lie within the root
validatePath(wd, path, root, restrict) ==
    LET r == Abs(wd, path)
    IN  IF r.err THEN [err |-> TRUE, path |-> path]
        ELSE IF restrict /\ ~IsPrefix(root.segs, r.path.segs)
        THEN [err |-> TRUE, path |-> r.path]
        ELSE [err |-> FALSE, path |-> r.path]

-----------------------------------------------------------------------------
(* Calls *)

F == <<"w", "f">>
G == <<"w", "g">>
Files == {F, G}

NoFile == [exists |-> FALSE, data |-> <<>>]
FileWith(data) == [exists |-> TRUE, data |-> data]

\* A call is [op, path, a, b, body, has]; has holds the keys of the args map
\* of a tool call that are present with a string value.
NoCall ==
    [op |-> "none", path |-> AbsP(<<>>), a |-> <<>>, b |-> <<>>, body |-> "-", has |-> {}]
EditCall(path, oldText, newText) ==
    [op |-> "edit", path |-> path, a |-> oldText, b |-> newText, body |-> "-",
     has |-> {"path", "old_text", "new_text"}]
AppendCall(path, text) ==
    [op |-> "append", path |-> path, a |-> text, b |-> <<>>, body |-> "-",
     has |-> {"path", "content"}]
LockCall(path, body) ==
    [op |-> "withlock", path |-> path, a |-> <<>>, b |-> <<>>, body |-> body, has |-> {}]

\* a goroutine of TestEditTool_ConcurrentEdits before it has read the file
CounterCall(path) ==
    [op |-> "counter", path |-> path, a |-> <<>>, b |-> <<>>, body |-> "-", has |-> {}]
\* MemoryStore.WriteLongTerm(content) and MemoryStore.AppendToday(content) of
\* a store whose memoryFile / todayFile is path
WriteLongTermCall(path, text) ==
    [op |-> "WriteLongTerm", path |-> path, a |-> text, b |-> <<>>, body |-> "-", has |-> {}]
AppendTodayCall(path, text) ==
    [op |-> "AppendToday", path |-> path, a |-> text, b |-> <<>>, body |-> "-", has |-> {}]
\* MemoryStore.ReadLongTerm() and MemoryStore.ReadToday() of such a store
ReadLongTermCall(path) ==
    [op |-> "ReadLongTerm", path |-> path, a |-> <<>>, b |-> <<>>, body |-> "-", has |-> {}]
ReadTodayCall(path) ==
    [op |-> "ReadToday", path |-> path, a |-> <<>>, b |-> <<>>, body |-> "-", has |-> {}]

\* the call c with the key k left out of its args map
Without(c, k) == [c EXCEPT !.has = @ \ {k}]

IsTool(c) == c.op \in {"edit", "append"}

\* the keys the tools read, in the order in which Execute reads them
Required(c) ==
    IF c.op = "edit" THEN <<"path", "old_text", "new_text">> ELSE <<"path", "content">>

ArgError_None(c) == ""

\* x, ok := args[k].(string); if !ok { return ErrorResult("k is required") }:
\* the message for the first key that is missing, "" when none is
ArgError(c) ==
    LET missing == {i \in 1..Len(Required(c)) : Required(c)[i] \notin c.has}
    IN  IF missing = {} THEN ""
        ELSE Required(c)[CHOOSE i \in missing : \A j \in missing : i <= j] \o " is required"

\* goroutine p is at a position, and the runtime has not aborted the process
At(p, where) == ~fatal /\ pc[p] \in where

\* the file a call works on
Target(p) == FileOf(cwd, rpath[p])

\* what a read or a write may do: succeed, or (faulty environment) fail
IOOutcomes == IF faulty THEN BOOLEAN ELSE {TRUE}

-----------------------------------------------------------------------------
(* The lock managers.  Manager 0 is globalFileLockManager; a goroutine's own *)
(* number names a manager made for it alone.                               *)

Managers == 0..NumProcs

GetGlobalFileLockManager_Fresh(p) == p

\* GetGlobalFileLockManager returns globalFileLockManager
GetGlobalFileLockManager(p) == 0

\* the entry of flm.locks that goroutine p looks up
Entry(p) == [flm |-> flm[p], path |-> key[p]]

-----------------------------------------------------------------------------
(* EditFileTool.Execute and AppendFileTool.Execute up to WithLock *)

Execute(p) ==
    /\ At(p, {"start"})
    /\ IsTool(call[p])
    /\ LET v == validatePath(cwd, call[p].path, AllowedDir, Restrict)
       IN  IF ArgError(call[p]) # ""
           THEN /\ result' = [result EXCEPT ![p] = ErrorResult(ArgError(call[p]), 0)]
                /\ pc' = [pc EXCEPT ![p] = "done"]
                /\ UNCHANGED <<rpath, flm>>
           ELSE IF v.err
           THEN /\ result' = [result EXCEPT ![p] = ErrorResult("access denied", 0)]
                /\ pc' = [pc EXCEPT ![p] = "done"]
                /\ UNCHANGED <<rpath, flm>>
           ELSE /\ rpath' = [rpath EXCEPT ![p] = v.path]
                /\ flm' = [flm EXCEPT ![p] = GetGlobalFileLockManager(p)]
                /\ pc' = [pc EXCEPT ![p] = "Lock.abs"]
                /\ UNCHANGED result
    /\ UNCHANGED <<cwd, fs, fs0, faulty, mu, locks, mutexes, fatal, call, key,
                   exists, lk, content, newContent, ret, panicking, acquired, wrote,
                   ctx, cc, loc>>

\* a direct caller: lockMgr := GetGlobalFileLockManager();
\* lockMgr.WithLock(path, fn)
WithLock(p) ==
    /\ At(p, {"start"})
    /\ call[p].op = "withlock"
    /\ rpath' = [rpath EXCEPT ![p] = call[p].path]
    /\ flm' = [flm EXCEPT ![p] = GetGlobalFileLockManager(p)]
    /\ pc' = [pc EXCEPT ![p] = "Lock.abs"]
    /\ UNCHANGED <<cwd, fs, fs0, faulty, mu, locks, mutexes, fatal, call, key,
                   exists, lk, content, newContent, result, ret, panicking, acquired, wrote,
                   ctx, cc, loc>>

-----------------------------------------------------------------------------
(* The goroutines of TestEditTool_ConcurrentEdits: read the file without   *)
(* the lock, then edit what was read into the next counter value.  A text  *)
(* of this scenario is the element "Counter: " followed by decimal digits. *)

Digit(d) == ToString(d)
Digits == {Digit(d) : d \in 0..9}
DigitValue(c) == CHOOSE d \in 0..9 : Digit(d) = c

\* %d of Sprintf: the decimal numeral of n >= 0
RECURSIVE Decimal(_)
Decimal(n) ==
    IF n < 10 THEN <<Digit(n)>> ELSE Append(Decimal(n \div 10), Digit(n % 10))

\* fmt.Sprintf("Counter: %d", n)
Sprintf(n) == <<"Counter: ">> \o Decimal(n)

\* %d of Sscanf: the value of the digits at the start of s
RECURSIVE ParseInt(_, _)
ParseInt(s, acc) ==
    IF s = <<>> \/ Head(s) \notin Digits THEN acc
    ELSE ParseInt(Tail(s), 10 * acc + DigitValue(Head(s)))

\* var currentValue int; fmt.Sscanf(currentLine, "Counter: %d", &currentValue):
\* currentValue stays 0 when the line does not match
Sscanf(line) ==
    IF line # <<>> /\ Head(line) = "Counter: " THEN ParseInt(Tail(line), 0) ELSE 0

\* content, _ := os.ReadFile(testFile); currentLine := string(content);
\* args := {path, old_text: currentLine, new_text: Sprintf(currentValue + 1)}
ReadCounter(p) ==
    /\ At(p, {"start"})
    /\ call[p].op = "counter"
    /\ \E ok \in IOOutcomes :
          LET file == fs[FileOf(cwd, call[p].path)]
              currentLine == IF ok /\ file.exists THEN file.data ELSE <<>>
          IN  call' = [call EXCEPT ![p] =
                          EditCall(@.path, currentLine, Sprintf(Sscanf(currentLine) + 1))]
    /\ UNCHANGED <<cwd, fs, fs0, faulty, mu, locks, mutexes, fatal, pc, flm, rpath, key,
                   exists, lk, content, newContent, result, ret, panicking, acquired, wrote,
                   ctx, cc, loc>>

-----------------------------------------------------------------------------
(* MemoryStore.WriteLongTerm and MemoryStore.AppendToday up to WithLock *)

\* lockMgr := tools.GetGlobalFileLockManager();
\* lockMgr.WithLock(ms.memoryFile, func() error { return os.WriteFile(...content...) })
WriteLongTerm(p) ==
    /\ At(p, {"start"})
    /\ call[p].op = "WriteLongTerm"
    /\ rpath' = [rpath EXCEPT ![p] = call[p].path]
    /\ flm' = [flm EXCEPT ![p] = GetGlobalFileLockManager(p)]
    /\ newContent' = [newContent EXCEPT ![p] = call[p].a]
    /\ pc' = [pc EXCEPT ![p] = "Lock.abs"]
    /\ UNCHANGED <<cwd, fs, fs0, faulty, mu, locks, mutexes, fatal, call, key,
                   exists, lk, content, result, ret, panicking, acquired, wrote,
                   ctx, cc, loc>>

\* todayFile := ms.getTodayFile(); lockMgr.WithLock(todayFile, ...)
AppendToday(p) ==
    /\ At(p, {"start"})
    /\ call[p].op = "AppendToday"
    /\ rpath' = [rpath EXCEPT ![p] = call[p].path]
    /\ flm' = [flm EXCEPT ![p] = GetGlobalFileLockManager(p)]
    /\ pc' = [pc EXCEPT ![p] = "Lock.abs"]
    /\ UNCHANGED <<cwd, fs, fs0, faulty, mu, locks, mutexes, fatal, call, key,
                   exists, lk, content, newContent, result, ret, panicking, acquired, wrote,
                   ctx, cc, loc>>

\* header := fmt.Sprintf("# %s\n\n", time.Now().Format("2006-01-02"))
Header == <<"# date\n\n">>

TodayContent_AlwaysHeader(existingContent, text) == Header \o text

\* the new content of the daily note
TodayContent(existingContent, text) ==
    IF existingContent = <<>> THEN Header \o text
    ELSE existingContent \o <<"\n">> \o text

\* the body of AppendToday up to os.WriteFile: existingContent is "" when
\* the read fails
AppendTodayReadFile(p) ==
    /\ At(p, {"AppendToday.ReadFile"})
    /\ \E ok \in IOOutcomes :
          LET existingContent ==
                  IF ok /\ fs[Target(p)].exists THEN fs[Target(p)].data ELSE <<>>
          IN  /\ content' = [content EXCEPT ![p] = existingContent]
              /\ newContent' = [newContent EXCEPT ![p] =
                                   TodayContent(existingContent, call[p].a)]
    /\ pc' = [pc EXCEPT ![p] = "WriteFile.open"]
    /\ UNCHANGED <<cwd, fs, fs0, faulty, mu, locks, mutexes, fatal, call, flm, rpath, key,
                   exists, lk, result, ret, panicking, acquired, wrote,
                   ctx, cc, loc>>

\* what os.ReadFile(path) returns as a string, "" when it fails
ReadString(file) == IF file.exists THEN file.data ELSE <<>>

\* if data, err := os.ReadFile(ms.memoryFile); err == nil { return string(data) }
\* return "": the file is read as it is, no lock is taken
ReadLongTerm(p) ==
    /\ At(p, {"start"})
    /\ call[p].op = "ReadLongTerm"
    /\ rpath' = [rpath EXCEPT ![p] = call[p].path]
    /\ content' = [content EXCEPT ![p] = ReadString(fs[FileOf(cwd, call[p].path)])]
    /\ pc' = [pc EXCEPT ![p] = "done"]
    /\ UNCHANGED <<cwd, fs, fs0, faulty, mu, locks, mutexes, fatal, call, flm, key,
                   exists, lk, newContent, result, ret, panicking, acquired, wrote,
                   ctx, cc, loc>>

\* todayFile := ms.getTodayFile(); the same read of todayFile
ReadToday(p) ==
    /\ At(p, {"start"})
    /\ call[p].op = "ReadToday"
    /\ rpath' = [rpath EXCEPT ![p] = call[p].path]
    /\ content' = [content EXCEPT ![p] = ReadString(fs[FileOf(cwd, call[p].path)])]
    /\ pc' = [pc EXCEPT ![p] = "done"]
    /\ UNCHANGED <<cwd, fs, fs0, faulty, mu, locks, mutexes, fatal, call, flm, key,
                   exists, lk, newContent, result, ret, panicking, acquired, wrote,
                   ctx, cc, loc>>

-----------------------------------------------------------------------------
(* MemoryStore.GetMemoryContextWithBudget *)

\* ms.GetMemoryContextWithBudget(maxTokens) of a store whose memoryFile is path
MemoryContextCall(path, maxTokens) ==
    [op |-> "GetMemoryContextWithBudget", path |-> path, a |-> <<>>, b |-> <<>>,
     body |-> "-", has |-> {}, maxTokens |-> maxTokens]

\* runes[lo:hi] of Go: a panic when the bounds are out of range
InRange(runes, lo, hi) == 0 <= lo /\ lo <= hi /\ hi <= Len(runes)
Slice(runes, lo, hi) == SubSeq(runes, lo + 1, hi)

Marker == <<"\n\n[...middle section truncated to fit token budget...]\n\n">>

\* the else-if branch of the long-term memory: [panic, text]
Truncated(runes, remainingBudget) ==
    LET totalRunes == Len(runes)
        maxChars == remainingBudget * 4
        keepStart == (maxChars * 40) \div 100
        keepEnd == (maxChars * 40) \div 100
    IN  IF keepStart + keepEnd < totalRunes
        THEN IF InRange(runes, 0, keepStart)
                   /\ InRange(runes, totalRunes - keepEnd, totalRunes)
             THEN [panic |-> FALSE,
                   text |-> Slice(runes, 0, keepStart) \o Marker
                                \o Slice(runes, totalRunes - keepEnd, totalRunes)]
             ELSE [panic |-> TRUE, text |-> <<>>]
        ELSE IF InRange(runes, 0, maxChars)
             THEN [panic |-> FALSE, text |-> Slice(runes, 0, maxChars)]
             ELSE [panic |-> TRUE, text |-> <<>>]

\* the long-term part of the context of a store without daily notes, where
\* longTermTokens is what estimateTokensInText(longTerm) returned
LongTermPart(longTerm, longTermTokens, maxTokens) ==
    IF longTerm = <<>> THEN [panic |-> FALSE, text |-> <<>>]
    ELSE IF maxTokens = 0 \/ longTermTokens <= maxTokens
         THEN [panic |-> FALSE, text |-> longTerm]
    ELSE IF maxTokens > 100 THEN Truncated(longTerm, maxTokens)
    ELSE [panic |-> FALSE, text |-> <<>>]

\* the whole call: longTerm := ms.ReadLongTerm(), its estimate, and the part
\* kept; a slice out of range is a run-time panic
GetMemoryContextWithBudget(p) ==
    /\ At(p, {"start"})
    /\ call[p].op = "GetMemoryContextWithBudget"
    /\ \E longTermTokens \in 0..MaxEstimate :
          LET longTerm == ReadString(fs[FileOf(cwd, call[p].path)])
              part == LongTermPart(longTerm, longTermTokens, call[p].maxTokens)
          IN  /\ content' = [content EXCEPT ![p] = part.text]
              /\ panicking' = [panicking EXCEPT ![p] = part.panic]
    /\ rpath' = [rpath EXCEPT ![p] = call[p].path]
    /\ pc' = [pc EXCEPT ![p] = "done"]
    /\ UNCHANGED <<cwd, fs, fs0, faulty, mu, locks, mutexes, fatal, call, flm, key,
                   exists, lk, newContent, result, ret, acquired, wrote,
                   ctx, cc, loc>>

-----------------------------------------------------------------------------
(* FileLockManager.getLock, called by Lock and by Unlock *)

InGetLock(p, at) == At(p, {"Lock." \o at, "Unlock." \o at})
GetLockGoto(p, at) ==
    IF pc[p] \in {"Lock.abs", "Lock.mu", "Lock.ret"} THEN "Lock." \o at ELSE "Unlock." \o at

\* absPath, err := filepath.Abs(path); on error filepath.Clean(path)
getLockAbs(p) ==
    /\ InGetLock(p, "abs")
    /\ key' = [key EXCEPT ![p] = Canonical(cwd, rpath[p])]
    /\ pc' = [pc EXCEPT ![p] = GetLockGoto(p, "mu")]
    /\ UNCHANGED <<cwd, fs, fs0, faulty, mu, locks, mutexes, fatal, call, flm, rpath,
                   exists, lk, content, newContent, result, ret, panicking, acquired, wrote,
                   ctx, cc, loc>>

MuFree_NoWait(m) == TRUE

\* flm.mu.Lock() waits until mu is free
MuFree(m) == mu[m] = 0

\* flm.mu.Lock(); lock, exists := flm.locks[absPath]
getLockLookup(p) ==
    /\ InGetLock(p, "mu")
    /\ MuFree(flm[p])
    /\ mu' = [mu EXCEPT ![flm[p]] = p]
    /\ exists' = [exists EXCEPT ![p] = Entry(p) \in DOMAIN locks]
    /\ lk' = [lk EXCEPT ![p] = IF Entry(p) \in DOMAIN locks THEN locks[Entry(p)] ELSE 0]
    /\ pc' = [pc EXCEPT ![p] = GetLockGoto(p, "ret")]
    /\ UNCHANGED <<cwd, fs, fs0, faulty, locks, mutexes, fatal, call, flm, rpath, key,
                   content, newContent, result, ret, panicking, acquired, wrote,
                   ctx, cc, loc>>

Insert_Alone(e, lock) == e :> lock

\* flm.locks[absPath] = lock: the map with the entry added
Insert(e, lock) == (e :> lock) @@ locks

muUnlock_Skip(m) == mu

\* defer flm.mu.Unlock(): runs when getLock returns
muUnlock(m) == [mu EXCEPT ![m] = 0]

\* if !exists { lock = &sync.Mutex{}; flm.locks[absPath] = lock }; return lock
\* (the deferred flm.mu.Unlock() runs)
getLockReturn(p) ==
    /\ InGetLock(p, "ret")
    /\ IF exists[p]
       THEN UNCHANGED <<locks, mutexes, lk>>
       ELSE /\ mutexes' = Append(mutexes, FALSE)
            /\ locks' = Insert(Entry(p), Len(mutexes) + 1)
            /\ lk' = [lk EXCEPT ![p] = Len(mutexes) + 1]
    /\ mu' = muUnlock(flm[p])
    /\ pc' = [pc EXCEPT ![p] = GetLockGoto(p, "mutex")]
    /\ UNCHANGED <<cwd, fs, fs0, faulty, fatal, call, flm, rpath, key, exists,
                   content, newContent, result, ret, panicking, acquired, wrote,
                   ctx, cc, loc>>

-----------------------------------------------------------------------------
(* FileLockManager.Lock: lock.Lock() *)

CanLock_NoWait(m) == TRUE

\* sync.Mutex.Lock returns only once the mutex is unlocked
CanLock(m) == ~mutexes[m]

\* where the body passed to WithLock starts
BodyEntry(c) ==
    CASE c.op = "edit" -> "Edit.Stat"
      [] c.op = "append" -> "Append.OpenFile"
      [] c.op = "WriteLongTerm" -> "WriteFile.open"
      [] c.op = "AppendToday" -> "AppendToday.ReadFile"
      [] c.body = "rmw" -> "Body.ReadFile"
      [] OTHER -> "Body.run"

Lock_Honours(p) ==
    /\ At(p, {"Lock.mutex"})
    /\ IF ctx[p] = "cancelled"
       THEN /\ pc' = [pc EXCEPT ![p] = "done"]
            /\ UNCHANGED <<mutexes, acquired>>
       ELSE /\ CanLock(lk[p])
            /\ mutexes' = [mutexes EXCEPT ![lk[p]] = TRUE]
            /\ acquired' = Append(acquired, p)
            /\ pc' = [pc EXCEPT ![p] = BodyEntry(call[p])]
    /\ UNCHANGED <<cwd, fs, fs0, faulty, mu, locks, fatal, call, flm, rpath, key, exists,
                   lk, content, newContent, result, ret, panicking, wrote,
                   ctx, cc, loc>>

Lock(p) ==
    /\ At(p, {"Lock.mutex"})
    /\ CanLock(lk[p])
    /\ mutexes' = [mutexes EXCEPT ![lk[p]] = TRUE]
    /\ acquired' = Append(acquired, p)
    /\ pc' = [pc EXCEPT ![p] = BodyEntry(call[p])]
    /\ UNCHANGED <<cwd, fs, fs0, faulty, mu, locks, fatal, call, flm, rpath, key, exists,
                   lk, content, newContent, result, ret, panicking, wrote,
                   ctx, cc, loc>>

-----------------------------------------------------------------------------
(* The bodies run under the lock.  A body ends by returning to WithLock,   *)
(* whose deferred flm.Unlock(path) then runs.                             *)

AfterBody_Relock(panics) == "Lock.abs"

AfterBody_NoDefer(panics) == IF panics THEN "panicked" ELSE "Unlock.abs"

\* where control goes when fn returns or panics: the deferred Unlock
AfterBody(panics) == "Unlock.abs"

ToolReturn_NoAssign(p, r) ==
    /\ result' = result
    /\ ret' = [ret EXCEPT ![p] = "nil"]
    /\ pc' = [pc EXCEPT ![p] = AfterBody(FALSE)]

\* return from the tool's closure with the result assigned (it returns nil)
ToolReturn(p, r) ==
    /\ result' = [result EXCEPT ![p] = r]
    /\ ret' = [ret EXCEPT ![p] = "nil"]
    /\ pc' = [pc EXCEPT ![p] = AfterBody(FALSE)]

EditStat_NoCheck(p) ==
    /\ At(p, {"Edit.Stat"})
    /\ pc' = [pc EXCEPT ![p] = "Edit.ReadFile"]
    /\ UNCHANGED <<cwd, fs, fs0, faulty, mu, locks, mutexes, fatal, call, flm, rpath, key,
                   exists, lk, content, newContent, result, ret, panicking, acquired, wrote,
                   ctx, cc, loc>>

\* if _, err := os.Stat(resolvedPath); os.IsNotExist(err)
EditStat(p) ==
    /\ At(p, {"Edit.Stat"})
    /\ IF ~fs[Target(p)].exists
       THEN ToolReturn(p, ErrorResult("file not found", 0))
       ELSE /\ pc' = [pc EXCEPT ![p] = "Edit.ReadFile"]
            /\ UNCHANGED <<result, ret>>
    /\ UNCHANGED <<cwd, fs, fs0, faulty, mu, locks, mutexes, fatal, call, flm, rpath, key,
                   exists, lk, content, newContent, panicking, acquired, wrote,
                   ctx, cc, loc>>

\* what the edit does with the content it read: the error result, or the
\* new content to write
EditDecision(contentStr, oldText, newText) ==
    IF ~Contains(contentStr, oldText)
    THEN [write |-> FALSE, result |-> ErrorResult("old_text not found in file", 0),
          newContent |-> <<>>]
    ELSE IF Count(contentStr, oldText) > 1
    THEN [write |-> FALSE,
          result |-> ErrorResult("old_text appears %d times", Count(contentStr, oldText)),
          newContent |-> <<>>]
    ELSE [write |-> TRUE, result |-> NilResult,
          newContent |-> Replace(contentStr, oldText, newText)]

\* content, err := os.ReadFile(resolvedPath), then the checks on contentStr
EditReadFile(p) ==
    /\ At(p, {"Edit.ReadFile"})
    /\ \E ok \in IOOutcomes :
          IF ~ok \/ ~fs[Target(p)].exists
          THEN /\ ToolReturn(p, ErrorResult("failed to read file", 0))
               /\ UNCHANGED <<content, newContent>>
          ELSE LET d == EditDecision(fs[Target(p)].data, call[p].a, call[p].b)
               IN  /\ content' = [content EXCEPT ![p] = fs[Target(p)].data]
                   /\ IF d.write
                      THEN /\ newContent' = [newContent EXCEPT ![p] = d.newContent]
                           /\ pc' = [pc EXCEPT ![p] = "WriteFile.open"]
                           /\ UNCHANGED <<result, ret>>
                      ELSE /\ ToolReturn(p, d.result)
                           /\ UNCHANGED newContent
    /\ UNCHANGED <<cwd, fs, fs0, faulty, mu, locks, mutexes, fatal, call, flm, rpath, key,
                   exists, lk, panicking, acquired, wrote,
                   ctx, cc, loc>>

\* the test body of TestFileLockManager_ConcurrentWrites: read the content
\* (empty when the read fails), add "W"
BodyReadFile(p) ==
    /\ At(p, {"Body.ReadFile"})
    /\ \E ok \in IOOutcomes :
          LET data == IF ok /\ fs[Target(p)].exists THEN fs[Target(p)].data ELSE <<>>
          IN  /\ content' = [content EXCEPT ![p] = data]
              /\ newContent' = [newContent EXCEPT ![p] = Append(data, "W")]
    /\ pc' = [pc EXCEPT ![p] = "WriteFile.open"]
    /\ UNCHANGED <<cwd, fs, fs0, faulty, mu, locks, mutexes, fatal, call, flm, rpath, key,
                   exists, lk, result, ret, panicking, acquired, wrote,
                   ctx, cc, loc>>

WriteFileReturn_Unchecked(p, failed) ==
    IF call[p].op = "edit"
    THEN ToolReturn(p, SilentResult("File edited"))
    ELSE /\ ret' = [ret EXCEPT ![p] = "nil"]
         /\ pc' = [pc EXCEPT ![p] = AfterBody(FALSE)]
         /\ UNCHANGED result

\* the body's return after os.WriteFile(..., newContent, 0644) ended with err
WriteFileReturn(p, failed) ==
    IF call[p].op = "edit"
    THEN ToolReturn(p, IF failed THEN ErrorResult("failed to write file", 0)
                       ELSE SilentResult("File edited"))
    ELSE /\ ret' = [ret EXCEPT ![p] = IF failed THEN "err" ELSE "nil"]
         /\ pc' = [pc EXCEPT ![p] = AfterBody(FALSE)]
         /\ UNCHANGED result

\* os.WriteFile, first half: open with O_WRONLY|O_CREATE|O_TRUNC
WriteFileOpen(p) ==
    /\ At(p, {"WriteFile.open"})
    /\ \E ok \in IOOutcomes :
          IF ok
          THEN /\ fs' = [fs EXCEPT ![Target(p)] = FileWith(<<>>)]
               /\ pc' = [pc EXCEPT ![p] = "WriteFile.write"]
               /\ UNCHANGED <<result, ret>>
          ELSE /\ WriteFileReturn(p, TRUE)
               /\ UNCHANGED fs
    /\ UNCHANGED <<cwd, fs0, faulty, mu, locks, mutexes, fatal, call, flm, rpath, key,
                   exists, lk, content, newContent, panicking, acquired, wrote,
                   ctx, cc, loc>>

\* os.WriteFile, second half: write the data and close
WriteFileWrite(p) ==
    /\ At(p, {"WriteFile.write"})
    /\ \E ok \in IOOutcomes :
          /\ fs' = IF ok THEN [fs EXCEPT ![Target(p)] = FileWith(newContent[p])] ELSE fs
          /\ wrote' = [wrote EXCEPT ![p] = ok]
          /\ WriteFileReturn(p, ~ok)
    /\ UNCHANGED <<cwd, fs0, faulty, mu, locks, mutexes, fatal, call, flm, rpath, key,
                   exists, lk, content, newContent, panicking, acquired,
                   ctx, cc, loc>>

\* f, err := os.OpenFile(resolvedPath, os.O_APPEND|os.O_CREATE|os.O_WRONLY, 0644)
AppendOpenFile(p) ==
    /\ At(p, {"Append.OpenFile"})
    /\ \E ok \in IOOutcomes :
          IF ok
          THEN /\ fs' = [fs EXCEPT ![Target(p)] =
                            IF @.exists THEN @ ELSE FileWith(<<>>)]
               /\ pc' = [pc EXCEPT ![p] = "Append.WriteString"]
               /\ UNCHANGED <<result, ret>>
          ELSE /\ ToolReturn(p, ErrorResult("failed to open file", 0))
               /\ UNCHANGED fs
    /\ UNCHANGED <<cwd, fs0, faulty, mu, locks, mutexes, fatal, call, flm, rpath, key,
                   exists, lk, content, newContent, panicking, acquired, wrote,
                   ctx, cc, loc>>

WriteAtEnd_AtStart(data, text) == text \o data

\* a write to a file opened with O_APPEND lands at the end of the file
WriteAtEnd(data, text) == data \o text

\* f.WriteString(content)
AppendWriteString(p) ==
    /\ At(p, {"Append.WriteString"})
    /\ \E ok \in IOOutcomes :
          /\ wrote' = [wrote EXCEPT ![p] = ok]
          /\ IF ok
             THEN /\ fs' = [fs EXCEPT ![Target(p)] = FileWith(WriteAtEnd(@.data, call[p].a))]
                  /\ ToolReturn(p, SilentResult("Appended"))
             ELSE /\ ToolReturn(p, ErrorResult("failed to append to file", 0))
                  /\ UNCHANGED fs
    /\ UNCHANGED <<cwd, fs0, faulty, mu, locks, mutexes, fatal, call, flm, rpath, key,
                   exists, lk, content, newContent, panicking, acquired,
                   ctx, cc, loc>>

\* a caller's body that does no I/O: it returns an error or panics
BodyRun(p) ==
    /\ At(p, {"Body.run"})
    /\ ret' = [ret EXCEPT ![p] = IF call[p].body = "err" THEN "err" ELSE @]
    /\ panicking' = [panicking EXCEPT ![p] = call[p].body = "panic"]
    /\ pc' = [pc EXCEPT ![p] = AfterBody(call[p].body = "panic")]
    /\ UNCHANGED <<cwd, fs, fs0, faulty, mu, locks, mutexes, fatal, call, flm, rpath, key,
                   exists, lk, content, newContent, result, acquired, wrote,
                   ctx, cc, loc>>

-----------------------------------------------------------------------------
(* FileLockManager.Unlock: lock.Unlock(), then the return of WithLock and   *)
(* of the tool                                                             *)

\* if lockErr != nil { return ErrorResult("lock error: ...") }; return result
ExecuteReturn(c, lockErr, r) ==
    IF ~IsTool(c) THEN r
    ELSE IF lockErr # "nil" THEN ErrorResult("lock error", 0)
    ELSE r

WithLockReturn_Nil(fnErr) == "nil"

\* return fn(): WithLock returns what fn returned
WithLockReturn(fnErr) == fnErr

\* the deferred flm.Unlock(path); then WithLock returns (ret becomes the
\* caller's lockErr) unless the stack is unwinding
Unlock(p) ==
    /\ At(p, {"Unlock.mutex"})
    /\ IF mutexes[lk[p]]
       THEN /\ mutexes' = [mutexes EXCEPT ![lk[p]] = FALSE]
            /\ pc' = [pc EXCEPT ![p] = IF panicking[p] THEN "panicked" ELSE "done"]
            /\ ret' = [ret EXCEPT ![p] = IF panicking[p] THEN @ ELSE WithLockReturn(@)]
            /\ result' = [result EXCEPT ![p] =
                             IF panicking[p] THEN @
                             ELSE ExecuteReturn(call[p], WithLockReturn(ret[p]), @)]
            /\ UNCHANGED fatal
       ELSE \* fatal error: sync: unlock of unlocked mutex
            /\ fatal' = TRUE
            /\ UNCHANGED <<mutexes, pc, result, ret>>
    /\ UNCHANGED <<cwd, fs, fs0, faulty, mu, locks, call, flm, rpath, key, exists, lk,
                   content, newContent, panicking, acquired, wrote,
                   ctx, cc, loc>>

-----------------------------------------------------------------------------
(* ContextCache.  cc.mu is a sync.RWMutex: w is the goroutine that holds   *)
(* the write lock (0: none), r the goroutines that hold read locks.  A map *)
(* is a function, a *CachedContent is nil or holds its Content, a string   *)
(* is a sequence over Alphabet.                                            *)

NilContent == [nil |-> TRUE, Content |-> <<>>]
CachedContent(c) == [nil |-> FALSE, Content |-> c]

\* NewContextCache(workspace): empty maps, no summaries, version 0, no model
NewContextCache ==
    [mu |-> [w |-> 0, r |-> {}],
     bootstrapFiles |-> << >>, skillsSummary |-> NilContent, skillsModTimes |-> << >>,
     toolsSummary |-> <<>>, toolsVersion |-> 0, currentModel |-> <<>>]

\* the cached values and the model, without the lock
Fields(c) ==
    [bootstrapFiles |-> c.bootstrapFiles, skillsSummary |-> c.skillsSummary,
     skillsModTimes |-> c.skillsModTimes, toolsSummary |-> c.toolsSummary,
     toolsVersion |-> c.toolsVersion, currentModel |-> c.currentModel]

\* a goroutine's locals: what SetModel returns, the fields when it took the
\* write lock (history), what the readers return, the summary of
\* GetToolsSummary, and (history) whether an earlier call of the goroutine
\* invalidated the tools and how many invalidations had returned when its
\* present call began
NoLoc ==
    [changed |-> "unset", before |-> Fields(NewContextCache), locked |-> FALSE,
     stats |-> << >>, model |-> <<>>, summary |-> <<>>,
     invalidated |-> FALSE, since |-> 0]

CacheCall(op, model) ==
    [op |-> op, path |-> AbsP(<<>>), a |-> model, b |-> <<>>, body |-> "-", has |-> {}]

WLockFree_NoWait == TRUE

\* cc.mu.Lock() waits until no goroutine holds the lock for writing or reading
WLockFree == cc.mu.w = 0 /\ cc.mu.r = {}

\* cc.mu.RLock() waits until no goroutine holds the lock for writing
RLockFree == cc.mu.w = 0

\* cc.mu.Lock() as the first statement of a method, which continues at next
ccLock(p, next) ==
    /\ At(p, {"start"})
    /\ WLockFree
    /\ cc' = [cc EXCEPT !.mu.w = p]
    /\ loc' = [loc EXCEPT ![p].before = Fields(cc), ![p].locked = TRUE]
    /\ pc' = [pc EXCEPT ![p] = next]
    /\ UNCHANGED <<cwd, fs, fs0, faulty, mu, locks, mutexes, fatal, call, flm, rpath,
                   key, exists, lk, content, newContent, result, ret, panicking,
                   acquired, wrote, ctx>>

\* cc.mu.RLock() as the first statement of a method, which continues at next
ccRLock(p, next) ==
    /\ At(p, {"start"})
    /\ RLockFree
    /\ cc' = [cc EXCEPT !.mu.r = @ \cup {p}]
    /\ pc' = [pc EXCEPT ![p] = next]
    /\ UNCHANGED <<cwd, fs, fs0, faulty, mu, locks, mutexes, fatal, call, flm, rpath,
                   key, exists, lk, content, newContent, result, ret, panicking,
                   acquired, wrote, ctx, loc>>

SetModelLock(p) ==
    /\ call[p].op = "SetModel"
    /\ ccLock(p, "SetModel.compare")

SameModel_Never(current, model) == FALSE

\* cc.currentModel == model
SameModel(current, model) == current = model

\* if cc.currentModel == model { return false }; cc.currentModel = model
SetModelCompare(p) ==
    /\ At(p, {"SetModel.compare"})
    /\ IF SameModel(cc.currentModel, call[p].a)
       THEN /\ loc' = [loc EXCEPT ![p].changed = "false"]
            /\ pc' = [pc EXCEPT ![p] = "ccUnlock"]
            /\ UNCHANGED cc
       ELSE /\ cc' = [cc EXCEPT !.currentModel = call[p].a]
            /\ pc' = [pc EXCEPT ![p] = "SetModel.clear"]
            /\ UNCHANGED loc
    /\ UNCHANGED <<cwd, fs, fs0, faulty, mu, locks, mutexes, fatal, call, flm, rpath,
                   key, exists, lk, content, newContent, result, ret, panicking,
                   acquired, wrote, ctx>>

\* cc.bootstrapFiles = make(...); cc.skillsSummary = nil;
\* cc.skillsModTimes = make(...)
SetModelClear(p) ==
    /\ At(p, {"SetModel.clear"})
    /\ cc' = [cc EXCEPT !.bootstrapFiles = << >>, !.skillsSummary = NilContent,
                        !.skillsModTimes = << >>]
    /\ pc' = [pc EXCEPT ![p] = "SetModel.tools"]
    /\ UNCHANGED <<cwd, fs, fs0, faulty, mu, locks, mutexes, fatal, call, flm, rpath,
                   key, exists, lk, content, newContent, result, ret, panicking,
                   acquired, wrote, ctx, loc>>

\* cc.toolsSummary = ""; cc.toolsVersion++; return true
SetModelTools(p) ==
    /\ At(p, {"SetModel.tools"})
    /\ cc' = [cc EXCEPT !.toolsSummary = <<>>, !.toolsVersion = @ + 1]
    /\ loc' = [loc EXCEPT ![p].changed = "true"]
    /\ pc' = [pc EXCEPT ![p] = "ccUnlock"]
    /\ UNCHANGED <<cwd, fs, fs0, faulty, mu, locks, mutexes, fatal, call, flm, rpath,
                   key, exists, lk, content, newContent, result, ret, panicking,
                   acquired, wrote, ctx>>

InvalidateToolsLock(p) ==
    /\ call[p].op = "InvalidateTools"
    /\ ccLock(p, "InvalidateTools.write")

InvalidateToolsEffect_All(c) ==
    [c EXCEPT !.bootstrapFiles = << >>, !.skillsSummary = NilContent,
              !.skillsModTimes = << >>, !.toolsSummary = <<>>, !.toolsVersion = @ + 1]

\* cc.toolsSummary = ""; cc.toolsVersion++
InvalidateToolsEffect(c) == [c EXCEPT !.toolsSummary = <<>>, !.toolsVersion = @ + 1]

InvalidateToolsWrite(p) ==
    /\ At(p, {"InvalidateTools.write"})
    /\ cc' = InvalidateToolsEffect(cc)
    /\ pc' = [pc EXCEPT ![p] = "ccUnlock"]
    /\ UNCHANGED <<cwd, fs, fs0, faulty, mu, locks, mutexes, fatal, call, flm, rpath,
                   key, exists, lk, content, newContent, result, ret, panicking,
                   acquired, wrote, ctx, loc>>

InvalidateBootstrapFilesLock(p) ==
    /\ call[p].op = "InvalidateBootstrapFiles"
    /\ ccLock(p, "InvalidateBootstrapFiles.write")

\* cc.bootstrapFiles = make(map[string]*CachedContent)
InvalidateBootstrapFilesWrite(p) ==
    /\ At(p, {"InvalidateBootstrapFiles.write"})
    /\ cc' = [cc EXCEPT !.bootstrapFiles = << >>]
    /\ pc' = [pc EXCEPT ![p] = "ccUnlock"]
    /\ UNCHANGED <<cwd, fs, fs0, faulty, mu, locks, mutexes, fatal, call, flm, rpath,
                   key, exists, lk, content, newContent, result, ret, panicking,
                   acquired, wrote, ctx, loc>>

InvalidateSkillsLock(p) ==
    /\ call[p].op = "InvalidateSkills"
    /\ ccLock(p, "InvalidateSkills.write")

\* cc.skillsSummary = nil; cc.skillsModTimes = make(map[string]time.Time)
InvalidateSkillsWrite(p) ==
    /\ At(p, {"InvalidateSkills.write"})
    /\ cc' = [cc EXCEPT !.skillsSummary = NilContent, !.skillsModTimes = << >>]
    /\ pc' = [pc EXCEPT ![p] = "ccUnlock"]
    /\ UNCHANGED <<cwd, fs, fs0, faulty, mu, locks, mutexes, fatal, call, flm, rpath,
                   key, exists, lk, content, newContent, result, ret, panicking,
                   acquired, wrote, ctx, loc>>

\* cc.mu.Unlock(), deferred or not, and the return
ccUnlock(p) ==
    /\ At(p, {"ccUnlock"})
    /\ IF cc.mu.w # 0
       THEN /\ cc' = [cc EXCEPT !.mu.w = 0]
            /\ pc' = [pc EXCEPT ![p] = "done"]
            /\ UNCHANGED fatal
       ELSE \* fatal error: sync: Unlock of unlocked RWMutex
            /\ fatal' = TRUE
            /\ UNCHANGED <<cc, pc>>
    /\ UNCHANGED <<cwd, fs, fs0, faulty, mu, locks, mutexes, call, flm, rpath, key,
                   exists, lk, content, newContent, result, ret, panicking, acquired,
                   wrote, ctx, loc>>

GetCurrentModelRLock(p) ==
    /\ call[p].op = "GetCurrentModel"
    /\ ccRLock(p, "GetCurrentModel.read")

\* return cc.currentModel
GetCurrentModelRead(p) ==
    /\ At(p, {"GetCurrentModel.read"})
    /\ loc' = [loc EXCEPT ![p].model = cc.currentModel]
    /\ pc' = [pc EXCEPT ![p] = "ccRUnlock"]
    /\ UNCHANGED <<cwd, fs, fs0, faulty, mu, locks, mutexes, fatal, call, flm, rpath,
                   key, exists, lk, content, newContent, result, ret, panicking,
                   acquired, wrote, ctx, cc>>

GetCacheStatsRLock(p) ==
    /\ call[p].op = "GetCacheStats"
    /\ ccRLock(p, "GetCacheStats.read")

\* return map[string]interface{}{...}
GetCacheStatsRead(p) ==
    /\ At(p, {"GetCacheStats.read"})
    /\ loc' = [loc EXCEPT ![p].stats =
                  [bootstrap_files_cached |-> Cardinality(DOMAIN cc.bootstrapFiles),
                   skills_cached |-> ~cc.skillsSummary.nil,
                   tools_cached |-> cc.toolsSummary # <<>>,
                   tools_version |-> cc.toolsVersion,
                   current_model |-> cc.currentModel]]
    /\ pc' = [pc EXCEPT ![p] = "ccRUnlock"]
    /\ UNCHANGED <<cwd, fs, fs0, faulty, mu, locks, mutexes, fatal, call, flm, rpath,
                   key, exists, lk, content, newContent, result, ret, panicking,
                   acquired, wrote, ctx, cc>>

\* the deferred cc.mu.RUnlock(), and the return
ccRUnlock(p) ==
    /\ At(p, {"ccRUnlock"})
    /\ cc' = [cc EXCEPT !.mu.r = @ \ {p}]
    /\ pc' = [pc EXCEPT ![p] = "done"]
    /\ UNCHANGED <<cwd, fs, fs0, faulty, mu, locks, mutexes, fatal, call, flm, rpath,
                   key, exists, lk, content, newContent, result, ret, panicking,
                   acquired, wrote, ctx, loc>>

-----------------------------------------------------------------------------
(* ContextCache.GetToolsSummary, called as ContextBuilder.buildToolsSection *)
(* calls it                                                                 *)

\* summaries := cb.tools.GetSummaries(); version := len(summaries);
\* cb.cache.GetToolsSummary(version, func() string {...})
ToolsCall(summaries) ==
    [op |-> "GetToolsSummary", path |-> AbsP(<<>>), a |-> <<>>, b |-> summaries,
     body |-> "-", has |-> {}]

Version(p) == Len(call[p].b)

\* p's call has cleared the tools summary and raised the tools version
AppliedNow(p) ==
    \/ call[p].op = "InvalidateTools" /\ pc[p] \in {"ccUnlock", "done"}
    \/ call[p].op = "SetModel" /\ loc[p].changed = "true"

\* history: the invalidations of the tools that have taken effect, and
\* those whose call has returned
InvalidationsApplied ==
    Cardinality({p \in Procs : loc[p].invalidated})
        + Cardinality({p \in Procs : AppliedNow(p)})
InvalidationsDone ==
    Cardinality({p \in Procs : loc[p].invalidated})
        + Cardinality({p \in Procs : AppliedNow(p) /\ pc[p] = "done"})

\* the text a generator returns names the moment at which it ran: the
\* number of invalidations that had taken effect
Generated(n) == <<"tools@" \o ToString(n)>>
GeneratedAt(summary) == CHOOSE n \in 0..NumProcs : Generated(n) = summary

\* the generator of buildToolsSection: if len(summaries) == 0 { return "" }
Generator(summaries) ==
    IF Len(summaries) = 0 THEN <<>> ELSE Generated(InvalidationsApplied)

GetToolsSummaryRLock(p) ==
    /\ call[p].op = "GetToolsSummary"
    /\ ccRLock(p, "GetToolsSummary.check")

Hit_AnyVersion(p) == cc.toolsSummary # <<>>

\* cc.toolsVersion == version && cc.toolsSummary != ""
Hit(p) == cc.toolsVersion = Version(p) /\ cc.toolsSummary # <<>>

\* if hit { summary := cc.toolsSummary; cc.mu.RUnlock(); return summary }
GetToolsSummaryCheck(p) ==
    /\ At(p, {"GetToolsSummary.check"})
    /\ IF Hit(p)
       THEN /\ loc' = [loc EXCEPT ![p].summary = cc.toolsSummary]
            /\ pc' = [pc EXCEPT ![p] = "ccRUnlock"]
       ELSE /\ pc' = [pc EXCEPT ![p] = "GetToolsSummary.miss"]
            /\ UNCHANGED loc
    /\ UNCHANGED <<cwd, fs, fs0, faulty, mu, locks, mutexes, fatal, call, flm, rpath,
                   key, exists, lk, content, newContent, result, ret, panicking,
                   acquired, wrote, ctx, cc>>

\* cc.mu.RUnlock() after a miss
GetToolsSummaryRUnlock(p) ==
    /\ At(p, {"GetToolsSummary.miss"})
    /\ cc' = [cc EXCEPT !.mu.r = @ \ {p}]
    /\ pc' = [pc EXCEPT ![p] = "GetToolsSummary.generate"]
    /\ UNCHANGED <<cwd, fs, fs0, faulty, mu, locks, mutexes, fatal, call, flm, rpath,
                   key, exists, lk, content, newContent, result, ret, panicking,
                   acquired, wrote, ctx, loc>>

\* summary := generator(), with no lock held
GetToolsSummaryGenerate(p) ==
    /\ At(p, {"GetToolsSummary.generate"})
    /\ loc' = [loc EXCEPT ![p].summary = Generator(call[p].b)]
    /\ pc' = [pc EXCEPT ![p] = "GetToolsSummary.lock"]
    /\ UNCHANGED <<cwd, fs, fs0, faulty, mu, locks, mutexes, fatal, call, flm, rpath,
                   key, exists, lk, content, newContent, result, ret, panicking,
                   acquired, wrote, ctx, cc>>

\* cc.mu.Lock()
GetToolsSummaryLock(p) ==
    /\ At(p, {"GetToolsSummary.lock"})
    /\ WLockFree
    /\ cc' = [cc EXCEPT !.mu.w = p]
    /\ loc' = [loc EXCEPT ![p].before = Fields(cc), ![p].locked = TRUE]
    /\ pc' = [pc EXCEPT ![p] = "GetToolsSummary.store"]
    /\ UNCHANGED <<cwd, fs, fs0, faulty, mu, locks, mutexes, fatal, call, flm, rpath,
                   key, exists, lk, content, newContent, result, ret, panicking,
                   acquired, wrote, ctx>>

\* cc.toolsSummary = summary; cc.toolsVersion = version; then cc.mu.Unlock()
\* and return summary
GetToolsSummaryStore(p) ==
    /\ At(p, {"GetToolsSummary.store"})
    /\ cc' = [cc EXCEPT !.toolsSummary = loc[p].summary, !.toolsVersion = Version(p)]
    /\ pc' = [pc EXCEPT ![p] = "ccUnlock"]
    /\ UNCHANGED <<cwd, fs, fs0, faulty, mu, locks, mutexes, fatal, call, flm, rpath,
                   key, exists, lk, content, newContent, result, ret, panicking,
                   acquired, wrote, ctx, loc>>

-----------------------------------------------------------------------------
(* ContextBuilder.BuildMessages.  A Message is [Role, Content]; a Content is *)
(* a list of blocks, and a Content that is a string is one block of Type     *)
(* "string".                                                                 *)

TextContent(text) == <<[Type |-> "string", Text |-> text]>>

Message(role, blocks) == [Role |-> role, Content |-> blocks]

\* cb.BuildMessages(history, summary, currentMessage, media, channel, chatID);
\* media lists what each path is: an image, an image that cannot be read,
\* or another file
BuildMessagesCall(history, summary, currentMessage, media, channel, chatID) ==
    [op |-> "BuildMessages", path |-> AbsP(<<>>), a |-> <<>>, b |-> <<>>,
     body |-> "-", has |-> {}, history |-> history, summary |-> summary,
     currentMessage |-> currentMessage, media |-> media, channel |-> channel,
     chatID |-> chatID]

\* the image blocks of the paths that are images and can be read
RECURSIVE ImageBlocks(_)
ImageBlocks(mediaPaths) ==
    IF mediaPaths = <<>> THEN <<>>
    ELSE (IF Head(mediaPaths) = "image"
          THEN <<[Type |-> "image", Text |-> ""]>> ELSE <<>>)
         \o ImageBlocks(Tail(mediaPaths))

\* cb.buildUserMessage(text, mediaPaths)
buildUserMessage(text, mediaPaths) ==
    IF Len(mediaPaths) = 0 THEN Message("user", TextContent(text))
    ELSE LET blocks == (IF text # "" THEN <<[Type |-> "text", Text |-> text]>> ELSE <<>>)
                           \o ImageBlocks(mediaPaths)
         IN  IF Len(blocks) > 0 THEN Message("user", blocks)
             ELSE Message("user", TextContent(text))

\* the system prompt as the list of its parts
SystemPrompt(c) ==
    <<"prompt">>
        \o (IF c.channel # "" /\ c.chatID # "" THEN <<"## Current Session">> ELSE <<>>)
        \o (IF c.summary # "" THEN <<"## Summary of Previous Conversation">> ELSE <<>>)

DropLeadingTools_All(history) == SelectSeq(history, LAMBDA m : m.Role # "tool")

\* for len(history) > 0 && (history[0].Role == "tool") { history = history[1:] }
RECURSIVE DropLeadingTools(_)
DropLeadingTools(history) ==
    IF Len(history) > 0 /\ history[1].Role = "tool"
    THEN DropLeadingTools(Tail(history))
    ELSE history

\* the messages BuildMessages returns
Messages(c) ==
    <<[Role |-> "system", Content |-> SystemPrompt(c)]>>
        \o DropLeadingTools(c.history)
        \o <<buildUserMessage(c.currentMessage, c.media)>>

BuildMessages(p) ==
    /\ At(p, {"start"})
    /\ call[p].op = "BuildMessages"
    /\ content' = [content EXCEPT ![p] = Messages(call[p])]
    /\ pc' = [pc EXCEPT ![p] = "done"]
    /\ UNCHANGED <<cwd, fs, fs0, faulty, mu, locks, mutexes, fatal, call, flm, rpath,
                   key, exists, lk, newContent, result, ret, panicking, acquired, wrote,
                   ctx, cc, loc>>

-----------------------------------------------------------------------------
(* Scenarios and specifications *)

WorkDir == [ok |-> TRUE, segs |-> <<"w">>]

\* spellings of the two files, and a path outside the allowed directory
FAbs == AbsP(<<"w", "f">>)
FRel == RelP(<<"f">>)
FDots == RelP(<<"..", "w", ".", "f">>)
GAbs == AbsP(<<"w", "g">>)
Outside == AbsP(<<"w", "..", "x", "f">>)

\* the state at the start, but for the working directory, the contexts and
\* the cache
InitBase ==
    /\ fs = fs0
    /\ mu = [m \in Managers |-> 0]
    /\ locks = << >>
    /\ mutexes = << >>
    /\ fatal = FALSE
    /\ pc = [p \in Procs |-> IF call[p].op = "none" THEN "done" ELSE "start"]
    /\ flm = [p \in Procs |-> 0]
    /\ rpath = [p \in Procs |-> AbsP(<<>>)]
    /\ key = [p \in Procs |-> AbsP(<<>>)]
    /\ exists = [p \in Procs |-> FALSE]
    /\ lk = [p \in Procs |-> 0]
    /\ content = [p \in Procs |-> <<>>]
    /\ newContent = [p \in Procs |-> <<>>]
    /\ result = [p \in Procs |-> NilResult]
    /\ ret = [p \in Procs |-> "unset"]
    /\ panicking = [p \in Procs |-> FALSE]
    /\ acquired = << >>
    /\ wrote = [p \in Procs |-> FALSE]
    /\ loc = [p \in Procs |-> NoLoc]

InitCommon ==
    /\ cwd = WorkDir
    /\ ctx = [p \in Procs |-> "live"]
    /\ cc = NewContextCache
    /\ InitBase

\* The goroutines run the same code and differ only in their calls, so a
\* scenario assigns the calls of a list in non-decreasing order of position.
Assignments(list) ==
    {[p \in Procs |-> list[ch[p]]] :
        ch \in {c \in [Procs -> 1..Len(list)] :
                    \A p \in Procs, q \in Procs : p < q => c[p] <= c[q]}}

\* concurrent callers on the two files
ConcurrentCalls ==
    <<EditCall(FAbs, <<"a">>, <<"b">>), EditCall(FRel, <<"b">>, <<"a", "a">>),
      AppendCall(FAbs, <<"a">>), AppendCall(FDots, <<"b">>), AppendCall(Outside, <<"a">>),
      LockCall(FAbs, "rmw"), LockCall(FRel, "rmw"), LockCall(GAbs, "rmw"),
      LockCall(FAbs, "err"), LockCall(FRel, "panic")>>

Init ==
    /\ call \in Assignments(ConcurrentCalls)
    /\ fs0 \in {[f \in Files |-> IF f = F THEN c ELSE NoFile] :
                   c \in {NoFile, FileWith(<<"a", "b">>)}}
    /\ faulty = FALSE
    /\ InitCommon

Step(p) ==
    \/ Execute(p)
    \/ WithLock(p)
    \/ getLockAbs(p)
    \/ getLockLookup(p)
    \/ getLockReturn(p)
    \/ Lock(p)
    \/ EditStat(p)
    \/ EditReadFile(p)
    \/ BodyReadFile(p)
    \/ WriteFileOpen(p)
    \/ WriteFileWrite(p)
    \/ AppendOpenFile(p)
    \/ AppendWriteString(p)
    \/ BodyRun(p)
    \/ Unlock(p)

Next == \E p \in Procs : Step(p)

Spec == Init /\ [][Next]_vars

\* callers on any mix of the two files, one call of each kind
MixedCalls ==
    <<EditCall(FAbs, <<"a">>, <<"b">>), AppendCall(FRel, <<"a">>),
      LockCall(FRel, "rmw"), LockCall(GAbs, "rmw"), LockCall(FAbs, "err"),
      LockCall(FAbs, "panic")>>

\* the mixed callers in an environment whose reads and writes may fail
InitFaulty ==
    /\ call \in Assignments(MixedCalls)
    /\ fs0 \in {[f \in Files |-> IF f = F THEN c ELSE NoFile] :
                   c \in {NoFile, FileWith(<<"a", "b">>)}}
    /\ faulty = TRUE
    /\ InitCommon

SpecFaulty == InitFaulty /\ [][Next]_vars

\* one goroutine edits: every content up to MaxContent, every old_text and
\* new_text up to MaxText; or it makes one of the other calls
SingleCalls ==
    {EditCall(FAbs, o, n) : o \in StringsUpTo(MaxText), n \in StringsUpTo(MaxText)}
    \cup {AppendCall(FAbs, <<"a">>), AppendCall(FAbs, <<>>), AppendCall(Outside, <<"a">>),
          LockCall(FRel, "rmw"), LockCall(FAbs, "err"), LockCall(FAbs, "panic")}
    \cup {EditCall(Outside, <<"a">>, <<"b">>)}
    \cup {Without(EditCall(path, <<"a">>, <<"b">>), k) :
              path \in {FAbs, Outside}, k \in {"path", "old_text", "new_text"}}
    \cup {Without(AppendCall(path, <<"a">>), k) :
              path \in {FAbs, Outside}, k \in {"path", "content"}}

InitEdit ==
    /\ call \in {[p \in Procs |-> IF p = 1 THEN c ELSE NoCall] : c \in SingleCalls}
    /\ fs0 \in {[f \in Files |-> IF f = F THEN c ELSE NoFile] :
                   c \in {NoFile} \cup {FileWith(d) : d \in StringsUpTo(MaxContent)}}
    /\ faulty = FALSE
    /\ InitCommon

SpecEdit == InitEdit /\ [][Next]_vars

\* the mixed callers under a scheduler that runs every goroutine that can
\* take a step
InitFair ==
    /\ call \in Assignments(MixedCalls)
    /\ fs0 = [f \in Files |-> IF f = F THEN FileWith(<<"a", "b">>) ELSE NoFile]
    /\ faulty = FALSE
    /\ InitCommon

Fairness == \A p \in Procs : WF_vars(Step(p))

SpecFair == InitFair /\ [][Next]_vars /\ Fairness

\* TestEditTool_ConcurrentEdits.  Either the run begins: the file holds
\* "Counter: 0" and no goroutine has read it.  Or the run is under way: nine
\* edits have succeeded, the file holds "Counter: 9", and a goroutine that read
\* the file when it held "Counter: 1" has yet to call Execute.
StaleCall == EditCall(FAbs, Sprintf(1), Sprintf(2))

InitCounter ==
    /\ \/ /\ call \in Assignments(<<CounterCall(FAbs), CounterCall(FRel)>>)
          /\ fs0 = [f \in Files |-> IF f = F THEN FileWith(Sprintf(0)) ELSE NoFile]
       \/ /\ call \in Assignments(<<StaleCall, CounterCall(FAbs)>>)
          /\ fs0 = [f \in Files |-> IF f = F THEN FileWith(Sprintf(9)) ELSE NoFile]
    /\ faulty = FALSE
    /\ InitCommon

CounterStep(p) ==
    \/ ReadCounter(p)
    \/ Execute(p)
    \/ getLockAbs(p)
    \/ getLockLookup(p)
    \/ getLockReturn(p)
    \/ Lock(p)
    \/ EditStat(p)
    \/ EditReadFile(p)
    \/ WriteFileOpen(p)
    \/ WriteFileWrite(p)
    \/ Unlock(p)

NextCounter == \E p \in Procs : CounterStep(p)

SpecCounter == InitCounter /\ [][NextCounter]_vars

\* TestEditTool_MixedConcurrentOperations: edits that replace the same text
\* and appends, all on one file
MixedOpsCalls ==
    <<EditCall(FAbs, <<"a", "b">>, <<"b">>), EditCall(FRel, <<"a">>, <<"b">>),
      AppendCall(FRel, <<"b">>), AppendCall(FAbs, <<"a">>)>>

InitMixedOps ==
    /\ call \in Assignments(MixedOpsCalls)
    /\ fs0 \in {[f \in Files |-> IF f = F THEN FileWith(c) ELSE NoFile] :
                   c \in {<<"a", "b">>, <<"a", "a", "b">>, <<"a", "b", "a">>}}
    /\ faulty = FALSE
    /\ InitCommon

ToolStep(p) ==
    \/ Execute(p)
    \/ getLockAbs(p)
    \/ getLockLookup(p)
    \/ getLockReturn(p)
    \/ Lock(p)
    \/ EditStat(p)
    \/ EditReadFile(p)
    \/ WriteFileOpen(p)
    \/ WriteFileWrite(p)
    \/ AppendOpenFile(p)
    \/ AppendWriteString(p)
    \/ Unlock(p)

NextTools == \E p \in Procs : ToolStep(p)

SpecMixedOps == InitMixedOps /\ [][NextTools]_vars

\* The tools and a MemoryStore in one process: the long-term memory file is
\* F, today's note is G.
MemoryFile == FRel
TodayFile == GAbs

MemoryCalls ==
    <<EditCall(FAbs, <<"a">>, <<"b">>), AppendCall(FRel, <<"b">>),
      AppendCall(GAbs, <<"a">>), WriteLongTermCall(MemoryFile, <<"a">>),
      AppendTodayCall(TodayFile, <<"b">>)>>

InitMemory ==
    /\ call \in Assignments(MemoryCalls)
    /\ fs0 \in {[f \in Files |-> IF f = F THEN c ELSE NoFile] :
                   c \in {NoFile, FileWith(<<"a", "b">>)}}
    /\ faulty = FALSE
    /\ InitCommon

MemoryStep(p) ==
    \/ Execute(p)
    \/ WriteLongTerm(p)
    \/ AppendToday(p)
    \/ getLockAbs(p)
    \/ getLockLookup(p)
    \/ getLockReturn(p)
    \/ Lock(p)
    \/ EditStat(p)
    \/ EditReadFile(p)
    \/ AppendTodayReadFile(p)
    \/ WriteFileOpen(p)
    \/ WriteFileWrite(p)
    \/ AppendOpenFile(p)
    \/ AppendWriteString(p)
    \/ Unlock(p)

NextMemory == \E p \in Procs : MemoryStep(p)

SpecMemory == InitMemory /\ [][NextMemory]_vars

\* The store is read while it is written: ReadLongTerm and ReadToday run
\* beside the writers of the same files
ReadCalls ==
    <<ReadLongTermCall(MemoryFile), ReadTodayCall(TodayFile),
      WriteLongTermCall(MemoryFile, <<"a">>), AppendTodayCall(TodayFile, <<"b">>),
      EditCall(FAbs, <<"a">>, <<"b">>), AppendCall(FRel, <<"b">>),
      AppendCall(GAbs, <<"a">>)>>

InitReads ==
    /\ call \in Assignments(ReadCalls)
    /\ fs0 \in {[f \in Files |-> c] : c \in {NoFile, FileWith(<<"a", "b">>)}}
    /\ faulty = FALSE
    /\ InitCommon

NextReads == \E p \in Procs : MemoryStep(p) \/ ReadLongTerm(p) \/ ReadToday(p)

SpecReads == InitReads /\ [][NextReads]_vars

\* The memory context of a store without daily notes whose long-term memory
\* holds up to MaxRunes runes: one caller passes a budget at or above the
\* threshold of 100 tokens below which nothing is kept, the others pass none
Budgets == 99..103

RunesOf(n) == [i \in 1..n |-> IF i % 2 = 1 THEN "a" ELSE "b"]

InitBudget ==
    /\ \E maxTokens \in Budgets :
          call = [p \in Procs |-> MemoryContextCall(MemoryFile,
                                     IF p = 1 THEN maxTokens ELSE 0)]
    /\ \E n \in 0..MaxRunes :
          fs0 = [f \in Files |-> IF f = F THEN FileWith(RunesOf(n)) ELSE NoFile]
    /\ faulty = FALSE
    /\ InitCommon

NextBudget == \E p \in Procs : GetMemoryContextWithBudget(p)

SpecBudget == InitBudget /\ [][NextBudget]_vars

\* BuildMessages on every history of up to MaxHistory messages with the
\* roles user, assistant and tool, with and without summary, session and
\* media; the messages of a history are told apart by their text
Roles == {"user", "assistant", "tool"}

Texts == <<"m1", "m2", "m3", "m4", "m5", "m6">>

HistoriesOf(n) ==
    {[i \in 1..n |-> Message(r[i], TextContent(Texts[i]))] : r \in [1..n -> Roles]}

AllHistories == UNION {HistoriesOf(n) : n \in 0..MaxHistory}

MessageCalls ==
    {BuildMessagesCall(h, s, m, media, ch, ch) :
        h \in AllHistories, s \in {"", "s"}, m \in {"", "hi"},
        media \in {<<>>, <<"other">>, <<"image", "unreadable">>}, ch \in {"", "c"}}

InitMessages ==
    /\ \E c \in MessageCalls :
          call = [p \in Procs |-> IF p = 1 THEN c
                                  ELSE BuildMessagesCall(<<>>, "", "hi", <<>>, "", "")]
    /\ fs0 = [f \in Files |-> NoFile]
    /\ faulty = FALSE
    /\ InitCommon

NextMessages == \E p \in Procs : BuildMessages(p)

SpecMessages == InitMessages /\ [][NextMessages]_vars

\* Every goroutine calls AppendToday with a content that is not empty, on a
\* day whose note does not exist yet
TodayCalls ==
    <<AppendTodayCall(TodayFile, <<"a">>), AppendTodayCall(TodayFile, <<"b">>),
      AppendTodayCall(TodayFile, <<"a", "b">>)>>

InitToday ==
    /\ call \in Assignments(TodayCalls)
    /\ fs0 = [f \in Files |-> NoFile]
    /\ faulty = FALSE
    /\ InitCommon

TodayStep(p) ==
    \/ AppendToday(p)
    \/ getLockAbs(p)
    \/ getLockLookup(p)
    \/ getLockReturn(p)
    \/ Lock(p)
    \/ AppendTodayReadFile(p)
    \/ WriteFileOpen(p)
    \/ WriteFileWrite(p)
    \/ Unlock(p)

NextToday == \E p \in Procs : TodayStep(p)

SpecToday == InitToday /\ [][NextToday]_vars

\* The tools called with contexts that are cancelled before the call, or
\* at any moment until the call returns.  Execute receives ctx and never
\* reads it; cancelling is the caller's step.
Cancel(p) ==
    /\ ~fatal
    /\ pc[p] # "done"
    /\ ctx[p] = "live"
    /\ ctx' = [ctx EXCEPT ![p] = "cancelled"]
    /\ UNCHANGED <<cwd, fs, fs0, faulty, mu, locks, mutexes, fatal, pc, call, flm, rpath,
                   key, exists, lk, content, newContent, result, ret, panicking,
                   acquired, wrote, cc, loc>>

CancelCalls ==
    <<EditCall(FAbs, <<"a">>, <<"b">>), EditCall(FRel, <<"b">>, <<"a">>),
      AppendCall(FRel, <<"a">>), AppendCall(GAbs, <<"a">>)>>

\* two callers; a caller's context is live or already cancelled
InitCancel ==
    /\ \E i \in 1..Len(CancelCalls), j \in 1..Len(CancelCalls) :
          /\ i <= j
          /\ call = [p \in Procs |-> IF p = 1 THEN CancelCalls[i]
                                      ELSE IF p = 2 THEN CancelCalls[j] ELSE NoCall]
    /\ fs0 \in {[f \in Files |-> IF f = F THEN c ELSE NoFile] :
                   c \in {NoFile, FileWith(<<"a", "b">>)}}
    /\ faulty = FALSE
    /\ cwd = WorkDir
    /\ ctx \in {c \in [Procs -> {"live", "cancelled"}] :
                    \A p \in Procs : p > 2 => c[p] = "live"}
    /\ cc = NewContextCache
    /\ InitBase

NextCancel == \E p \in Procs : ToolStep(p) \/ Cancel(p)

\* the scheduler runs every goroutine that can take a step; nothing obliges
\* a caller to cancel
FairTools == \A p \in Procs : WF_vars(ToolStep(p))

SpecCancel == InitCancel /\ [][NextCancel]_vars /\ FairTools

\* TestContextCache_ThreadSafety and TestContextCache_SetModel_Invalidation:
\* goroutines call the cache, which is new or holds the content the test
\* stores after its first SetModel
Populated ==
    [mu |-> [w |-> 0, r |-> {}],
     bootstrapFiles |-> ("AGENT.md" :> CachedContent(<<"a">>)),
     skillsSummary |-> CachedContent(<<"b">>),
     skillsModTimes |-> ("skill" :> 1),
     toolsSummary |-> <<"a", "b">>, toolsVersion |-> 5, currentModel |-> <<"a">>]

CacheCalls ==
    <<CacheCall("SetModel", <<"a">>), CacheCall("SetModel", <<"b">>),
      CacheCall("InvalidateTools", <<>>), CacheCall("InvalidateBootstrapFiles", <<>>),
      CacheCall("InvalidateSkills", <<>>), CacheCall("GetCurrentModel", <<>>),
      CacheCall("GetCacheStats", <<>>)>>

InitCache ==
    /\ call \in Assignments(CacheCalls)
    /\ cc \in {NewContextCache, Populated}
    /\ fs0 = [f \in Files |-> NoFile]
    /\ faulty = FALSE
    /\ cwd = WorkDir
    /\ ctx = [p \in Procs |-> "live"]
    /\ InitBase

CacheStep(p) ==
    \/ SetModelLock(p)
    \/ SetModelCompare(p)
    \/ SetModelClear(p)
    \/ SetModelTools(p)
    \/ InvalidateToolsLock(p)
    \/ InvalidateToolsWrite(p)
    \/ InvalidateBootstrapFilesLock(p)
    \/ InvalidateBootstrapFilesWrite(p)
    \/ InvalidateSkillsLock(p)
    \/ InvalidateSkillsWrite(p)
    \/ ccUnlock(p)
    \/ GetCurrentModelRLock(p)
    \/ GetCurrentModelRead(p)
    \/ GetCacheStatsRLock(p)
    \/ GetCacheStatsRead(p)
    \/ ccRUnlock(p)

NextCache == \E p \in Procs : CacheStep(p)

SpecCache == InitCache /\ [][NextCache]_vars

\* Goroutines build the tools section while others invalidate the tools
\* summary; a goroutine whose SetModel or InvalidateTools has returned goes
\* on to build the tools section.  The registry holds five tools or none;
\* the cache is new or holds a summary stored for five tools.
FiveTools == <<"t", "t", "t", "t", "t">>

Stored == [Populated EXCEPT !.toolsSummary = Generated(0)]

SummaryCalls ==
    <<ToolsCall(FiveTools), ToolsCall(<<>>), CacheCall("InvalidateTools", <<>>),
      CacheCall("SetModel", <<"a">>), CacheCall("SetModel", <<"b">>)>>

InitSummary ==
    /\ call \in Assignments(SummaryCalls)
    /\ cc \in {NewContextCache, Stored}
    /\ fs0 = [f \in Files |-> NoFile]
    /\ faulty = FALSE
    /\ cwd = WorkDir
    /\ ctx = [p \in Procs |-> "live"]
    /\ InitBase

\* the next call of a goroutine whose SetModel or InvalidateTools returned
BuildToolsSectionNext(p) ==
    /\ At(p, {"done"})
    /\ call[p].op \in {"SetModel", "InvalidateTools"}
    /\ call' = [call EXCEPT ![p] = ToolsCall(FiveTools)]
    /\ loc' = [loc EXCEPT ![p].invalidated = AppliedNow(p),
                          ![p].since = InvalidationsDone]
    /\ pc' = [pc EXCEPT ![p] = "start"]
    /\ UNCHANGED <<cwd, fs, fs0, faulty, mu, locks, mutexes, fatal, flm, rpath,
                   key, exists, lk, content, newContent, result, ret, panicking,
                   acquired, wrote, ctx, cc>>

SummaryStep(p) ==
    \/ SetModelLock(p)
    \/ SetModelCompare(p)
    \/ SetModelClear(p)
    \/ SetModelTools(p)
    \/ InvalidateToolsLock(p)
    \/ InvalidateToolsWrite(p)
    \/ ccUnlock(p)
    \/ GetToolsSummaryRLock(p)
    \/ GetToolsSummaryCheck(p)
    \/ GetToolsSummaryRUnlock(p)
    \/ GetToolsSummaryGenerate(p)
    \/ GetToolsSummaryLock(p)
    \/ GetToolsSummaryStore(p)
    \/ ccRUnlock(p)
    \/ BuildToolsSectionNext(p)

NextSummary == \E p \in Procs : SummaryStep(p)

SpecSummary == InitSummary /\ [][NextSummary]_vars

\* Callers of WithLock with any path of up to MaxSegs elements, rooted or
\* not, in a process whose working directory resolves or whose Getwd fails
Elems == {"f", ".", ".."}
AnyPath ==
    {[abs |-> r, segs |-> e] :
        r \in BOOLEAN, e \in UNION {[1..k -> Elems] : k \in 0..MaxSegs}}

NoWorkDir == [ok |-> FALSE, segs |-> <<>>]

\* two callers: the second passes the same path, or the same elements as a
\* rooted path, or makes no call
InitPaths ==
    /\ \E path \in AnyPath :
          \E other \in {LockCall(path, "err"), LockCall(AbsP(path.segs), "err"), NoCall} :
              call = [p \in Procs |-> IF p = 1 THEN LockCall(path, "err")
                                      ELSE IF p = 2 THEN other ELSE NoCall]
    /\ cwd \in {WorkDir, NoWorkDir}
    /\ fs0 = [f \in Files |-> NoFile]
    /\ faulty = FALSE
    /\ ctx = [p \in Procs |-> "live"]
    /\ cc = NewContextCache
    /\ InitBase

LockStep(p) ==
    \/ WithLock(p)
    \/ getLockAbs(p)
    \/ getLockLookup(p)
    \/ getLockReturn(p)
    \/ Lock(p)
    \/ BodyRun(p)
    \/ Unlock(p)

NextLock == \E p \in Procs : LockStep(p)

SpecPaths == InitPaths /\ [][NextLock]_vars

\* Callers of WithLock in a process whose working directory changes: some
\* goroutine calls os.Chdir at any moment, also while a body runs.
\* filepath.Abs reads the working directory at each call of getLock.
OtherDir == [ok |-> TRUE, segs |-> <<"x">>]

Chdir ==
    /\ ~fatal
    /\ \E p \in Procs : pc[p] # "done"
    /\ cwd' = IF cwd = WorkDir THEN OtherDir ELSE WorkDir
    /\ UNCHANGED <<fs, fs0, faulty, mu, locks, mutexes, fatal, pc, call, flm, rpath, key,
                   exists, lk, content, newContent, result, ret, panicking, acquired,
                   wrote, ctx, cc, loc>>

ChdirCalls == <<LockCall(FRel, "err"), LockCall(FAbs, "err"), LockCall(FDots, "err")>>

InitChdir ==
    /\ call \in Assignments(ChdirCalls)
    /\ fs0 = [f \in Files |-> NoFile]
    /\ faulty = FALSE
    /\ InitCommon

NextChdir == Chdir \/ \E p \in Procs : LockStep(p)

SpecChdir == InitChdir /\ [][NextChdir]_vars

-----------------------------------------------------------------------------
(* Vocabulary of the properties *)

BodyPCs == {"Edit.Stat", "Edit.ReadFile", "Body.ReadFile", "WriteFile.open",
            "WriteFile.write", "Append.OpenFile", "Append.WriteString", "Body.run",
            "AppendToday.ReadFile"}
UnlockPCs == {"Unlock.abs", "Unlock.mu", "Unlock.ret", "Unlock.mutex"}

\* p executes the body passed to WithLock
InBody(p) == pc[p] \in BodyPCs
\* p has acquired its per-path lock and not yet released it
Holding(p) == pc[p] \in BodyPCs \cup UnlockPCs
\* p waits in lock.Lock()
Waiting(p) == pc[p] = "Lock.mutex"
Finished(p) == pc[p] \in {"done", "panicked"}
AllDone == \A p \in Procs : Finished(p)

\* the file a call names
CallFile(p) == FileOf(cwd, call[p].path)
Touches(p, f) == call[p].op # "none" /\ CallFile(p) = f
Callers(f) == {p \in Procs : Touches(p, f)}

\* p's call is an edit (an append) with all its arguments, on the file f
EditOn(p, f) == call[p].op = "edit" /\ ArgError(call[p]) = "" /\ CallFile(p) = f
AppendOn(p, f) == call[p].op = "append" /\ ArgError(call[p]) = "" /\ CallFile(p) = f

Succeeded(p) == ~result[p].nil /\ ~result[p].IsError /\ result[p].Silent

\* the resolved path of p's call lies outside the allowed directory
OutsideRoot(p) == ~IsPrefix(AllowedDir.segs, CallFile(p))

\* the keys Execute reads that p's args map does not hold
MissingKeys(p) ==
    {Required(call[p])[i] : i \in 1..Len(Required(call[p]))} \ call[p].has

\* p never came near the lock manager or a file
Untouched(p) ==
    /\ pc[p] \in {"start", "done"}
    /\ lk[p] = 0 /\ key[p] = AbsP(<<>>)
    /\ locks = << >> /\ mutexes = << >> /\ acquired = << >>
    /\ content[p] = <<>> /\ ~wrote[p]
    /\ fs = fs0

\* how many times p's body was entered: fn() is called each time Lock returns
BodyRuns(p) == Cardinality({i \in 1..Len(acquired) : acquired[i] = p})

\* what the body of a direct WithLock caller returns
BodyValue(p) ==
    IF call[p].body = "err" THEN "err"
    ELSE IF wrote[p] THEN "nil" ELSE "err"

\* the payloads of the appends on f, in an order of goroutines
RECURSIVE AppendPayloads(_, _)
AppendPayloads(order, f) ==
    IF order = <<>> THEN <<>>
    ELSE (IF AppendOn(Head(order), f) THEN call[Head(order)].a ELSE <<>>)
         \o AppendPayloads(Tail(order), f)

\* the goroutines whose tool call returned success
Successes == {p \in Procs : Succeeded(p)}

\* p acquired its lock before q did
AcquiredBefore(p, q) ==
    \E i \in 1..Len(acquired), j \in 1..Len(acquired) :
        i < j /\ acquired[i] = p /\ acquired[j] = q

\* the number of start positions at which sub occurs in s
Occurrences(s, sub) == Cardinality({i \in 0..Len(s) : HasPrefixAt(s, sub, i)})

\* the file after a call that runs alone from start to end
SeqEffect(c, file) ==
    CASE c.op = "edit" ->
            IF ~file.exists THEN file
            ELSE LET d == EditDecision(file.data, c.a, c.b)
                 IN  IF d.write THEN FileWith(d.newContent) ELSE file
      [] c.op = "append" -> FileWith(file.data \o c.a)
      [] c.op = "withlock" /\ c.body = "rmw" -> FileWith(Append(file.data, "W"))
      [] c.op = "WriteLongTerm" -> FileWith(c.a)
      [] c.op = "AppendToday" -> FileWith(TodayContent(file.data, c.a))
      [] OTHER -> file

\* the file f after the calls on it have run one after another in an order
RECURSIVE RunInOrder(_, _, _)
RunInOrder(order, f, file) ==
    IF order = <<>> THEN file
    ELSE RunInOrder(Tail(order), f,
                    IF Touches(Head(order), f) THEN SeqEffect(call[Head(order)], file)
                    ELSE file)

Orders == {o \in [1..NumProcs -> Procs] : \A i, j \in 1..NumProcs : o[i] = o[j] => i = j}

SerialFinals(f) == {RunInOrder(o, f, fs0[f]) : o \in Orders}

\* the payloads of the appends on f, in an order of goroutines
RECURSIVE Payloads(_, _)
Payloads(order, f) ==
    IF order = <<>> THEN <<>>
    ELSE (IF Touches(Head(order), f) THEN call[Head(order)].a ELSE <<>>)
         \o Payloads(Tail(order), f)

-----------------------------------------------------------------------------
(* Properties *)

\* C1: at most one WithLock body runs per canonical path: while one goroutine
\* is in its body, no other goroutine with the same key is in its body or
\* holds the lock
MutualExclusion ==
    \A p \in Procs, q \in Procs :
        p # q /\ InBody(p) /\ Holding(q) => key[p] # key[q]

\* a goroutine waits in lock.Lock() for the key whose body another one runs
MutualExclusionWitness ==
    \E p \in Procs, q \in Procs :
        p # q /\ InBody(p) /\ Waiting(q) /\ key[p] = key[q] /\ mutexes[lk[q]]

\* C2: when all calls have returned, the content of every file is the content
\* that running the calls on it one after another, in some order, produces
Serializable ==
    AllDone => \A f \in Files : fs[f] \in SerialFinals(f)

\* an edit and an append on the same file both succeeded, the append having
\* acquired the lock first
SerializableWitness ==
    /\ AllDone
    /\ \E p \in Procs, q \in Procs :
          /\ call[p].op = "edit" /\ call[q].op = "append"
          /\ CallFile(p) = CallFile(q)
          /\ Succeeded(p) /\ Succeeded(q)
          /\ AcquiredBefore(q, p)

\* C3: when all calls on a file are appends, every one of them succeeds and
\* the final content is the initial content followed by the payloads in the
\* order in which the calls acquired the lock
AppendsInLockOrder ==
    AllDone =>
        \A f \in Files :
            (Callers(f) # {} /\ \A p \in Callers(f) : call[p].op = "append") =>
                /\ \A p \in Callers(f) : Succeeded(p)
                /\ fs[f] = FileWith(fs0[f].data \o Payloads(acquired, f))

\* two appends with different payloads on a file that had content; the
\* goroutine with the higher number acquired the lock first
AppendsInLockOrderWitness ==
    /\ AllDone
    /\ \A p \in Procs : call[p].op = "append" /\ CallFile(p) = F
    /\ \E p \in Procs, q \in Procs :
          p < q /\ call[p].a # call[q].a /\ AcquiredBefore(q, p)
    /\ fs0[F].exists

\* C4: when all calls on a file are read-modify-write bodies under WithLock,
\* each adding one element, the final content is the initial content plus
\* one element per call
NoLostUpdate ==
    AllDone =>
        \A f \in Files :
            (Callers(f) # {} /\ \A p \in Callers(f) : call[p].body = "rmw") =>
                fs[f] = FileWith(fs0[f].data \o [i \in 1..Cardinality(Callers(f)) |-> "W"])

\* every goroutine ran the read-modify-write body on the same file
NoLostUpdateWitness ==
    /\ AllDone
    /\ \A p \in Procs : call[p].body = "rmw" /\ CallFile(p) = F
    /\ \E p \in Procs, q \in Procs : p # q /\ call[p].path # call[q].path

\* C5: the per-path lock is released on every exit of the body (nil, error,
\* panic) and on every outcome of the tools: the lock a finished goroutine
\* had acquired is locked only if another goroutine acquired it since, and
\* when all goroutines have finished every lock is free
LockReleasedOnExit ==
    /\ \A p \in Procs :
          (Finished(p) /\ lk[p] # 0 /\ mutexes[lk[p]]) =>
              \E q \in Procs \ {p} : Holding(q) /\ lk[q] = lk[p]
    /\ AllDone => \A m \in 1..Len(mutexes) : ~mutexes[m]

\* a goroutine runs its body on a path after the body of an earlier holder of
\* that path's lock panicked
LockReleasedOnExitWitness ==
    \E p \in Procs, q \in Procs :
        /\ pc[p] = "panicked" /\ InBody(q)
        /\ key[p] = key[q] /\ AcquiredBefore(p, q)

\* C6: a goroutine waiting in lock.Lock() waits for a goroutine that holds the
\* lock of the same file, never for the holder of another path's lock
NoCrossPathBlocking ==
    \A p \in Procs :
        (Waiting(p) /\ mutexes[lk[p]]) =>
            \E q \in Procs \ {p} :
                Holding(q) /\ FileOf(cwd, rpath[q]) = FileOf(cwd, rpath[p])

\* the bodies of two goroutines on different canonical paths run at once
NoCrossPathBlockingWitness ==
    \E p \in Procs, q \in Procs :
        InBody(p) /\ InBody(q) /\ key[p] # key[q] /\ CallFile(p) # CallFile(q)

KeyedPCs == {"Lock.mu", "Lock.ret", "Lock.mutex"} \cup BodyPCs \cup UnlockPCs

\* C7: two spellings of the same file get the same registry key, and their
\* WithLock calls exclude each other
SpellingsShareKey ==
    \A p \in Procs, q \in Procs :
        /\ (pc[p] \in KeyedPCs /\ pc[q] \in KeyedPCs /\ CallFile(p) = CallFile(q)) =>
              (key[p] = key[q] /\ key[p] = AbsP(CallFile(p)))
        /\ (p # q /\ InBody(p) /\ Holding(q)) => CallFile(p) # CallFile(q)

\* a WithLock call with a relative path waits for the body of a WithLock call
\* that spelled the same file with its absolute path
SpellingsShareKeyWitness ==
    \E p \in Procs, q \in Procs :
        /\ call[p].op = "withlock" /\ call[q].op = "withlock"
        /\ call[p].path.abs /\ ~call[q].path.abs
        /\ InBody(p) /\ Waiting(q) /\ mutexes[lk[q]] /\ lk[q] = lk[p]

\* C8: every call eventually returns (or unwinds): in every fair run all
\* goroutines finish
Termination == <>AllDone

\* all goroutines called on the same file and all have finished
TerminationWitness ==
    /\ AllDone
    /\ Len(acquired) = NumProcs
    /\ \A p \in Procs : CallFile(p) = F

\* C9: an edit whose old_text occurs at two or more places of the content
\* returns the "appears n times" error with n the number of occurrences and
\* leaves the file as it was
AmbiguousRejected ==
    \A p \in Procs :
        (/\ pc[p] = "done" /\ EditOn(p, F)
         /\ fs0[F].exists /\ Occurrences(fs0[F].data, call[p].a) >= 2) =>
            /\ result[p] = ErrorResult("old_text appears %d times",
                                       Occurrences(fs0[F].data, call[p].a))
            /\ fs[F] = fs0[F]

\* Supporting fact for C9: with the occurrences counted as strings.Count
\* counts them (without overlap), two or more are rejected with that count and
\* the file is left as it was
CountedTwiceRejected ==
    \A p \in Procs :
        (/\ pc[p] = "done" /\ EditOn(p, F)
         /\ fs0[F].exists /\ Count(fs0[F].data, call[p].a) >= 2) =>
            /\ result[p] = ErrorResult("old_text appears %d times",
                                       Count(fs0[F].data, call[p].a))
            /\ fs[F] = fs0[F]

\* C10: an edit whose old_text occurs at exactly one place of the content
\* succeeds; the file then holds the text before that place, new_text, and
\* the text after the occurrence; no other file changes
SingleMatchReplaced ==
    \A p \in Procs :
        (/\ pc[p] = "done" /\ EditOn(p, F)
         /\ fs0[F].exists /\ Occurrences(fs0[F].data, call[p].a) = 1) =>
            LET c == fs0[F].data
                i == CHOOSE i \in 0..Len(c) : HasPrefixAt(c, call[p].a, i)
            IN  /\ Succeeded(p)
                /\ fs[F] = FileWith(SubSeq(c, 1, i) \o call[p].b
                                    \o From(c, i + Len(call[p].a)))
                /\ fs[G] = fs0[G]

\* an edit replaced an occurrence in the middle of the content by a text of
\* another length
SingleMatchReplacedWitness ==
    \E p \in Procs :
        /\ pc[p] = "done" /\ EditOn(p, F) /\ Succeeded(p)
        /\ Occurrences(fs0[F].data, call[p].a) = 1
        /\ Index(fs0[F].data, call[p].a) > 0
        /\ Index(fs0[F].data, call[p].a) + Len(call[p].a) < Len(fs0[F].data)
        /\ Len(call[p].b) # Len(call[p].a) /\ Len(call[p].a) > 0

\* C11: an edit whose old_text occurs nowhere in the content of an existing
\* file returns the "old_text not found" error and leaves every file as it was
ContentNotFound ==
    \A p \in Procs :
        (/\ pc[p] = "done" /\ EditOn(p, F)
         /\ fs0[F].exists /\ Occurrences(fs0[F].data, call[p].a) = 0) =>
            /\ result[p] = ErrorResult("old_text not found in file", 0)
            /\ fs = fs0

\* an edit with a new_text met a file with content that lacks its old_text
ContentNotFoundWitness ==
    \E p \in Procs :
        /\ pc[p] = "done" /\ EditOn(p, F) /\ result[p].IsError
        /\ fs0[F].exists /\ Len(fs0[F].data) = MaxContent
        /\ Occurrences(fs0[F].data, call[p].a) = 0
        /\ call[p].b # <<>>

\* C12: an edit on a path without a file never creates one, whatever its
\* old_text and new_text, and returns the "file not found" error
NotFound ==
    \A p \in Procs :
        (EditOn(p, F) /\ ~fs0[F].exists) =>
            /\ \A f \in Files : ~fs[f].exists
            /\ pc[p] = "done" => result[p] = ErrorResult("file not found", 0)

\* an edit with an empty old_text returned on a path without a file
NotFoundWitness ==
    \E p \in Procs :
        /\ pc[p] = "done" /\ EditOn(p, F) /\ result[p].IsError
        /\ ~fs0[F].exists /\ ~fs[F].exists
        /\ call[p].a = <<>> /\ call[p].b # <<>>

\* C13: an append succeeds and leaves the file holding what it held before
\* (nothing when it was absent) followed by exactly the payload; an empty
\* payload leaves the content as it was; no other file changes
AppendVerbatim ==
    \A p \in Procs :
        (pc[p] = "done" /\ AppendOn(p, F)) =>
            /\ Succeeded(p)
            /\ fs[F] = FileWith(fs0[F].data \o call[p].a)
            /\ call[p].a = <<>> => fs[F].data = fs0[F].data
            /\ fs[G] = fs0[G]

\* an append with a payload created the file
AppendVerbatimWitness ==
    \E p \in Procs :
        /\ pc[p] = "done" /\ AppendOn(p, F) /\ Succeeded(p)
        /\ ~fs0[F].exists /\ fs[F].exists /\ call[p].a # <<>>

\* C14: a tool call that does not return an error returns a silent result
\* with an empty ForUser, and a result is silent exactly when the call's
\* write to the file completed
SilentOnSuccess ==
    \A p \in Procs :
        (pc[p] = "done" /\ IsTool(call[p])) =>
            /\ ~result[p].nil
            /\ ~result[p].IsError => (result[p].Silent /\ result[p].ForUser = "")
            /\ result[p].Silent => (~result[p].IsError /\ result[p].ForUser = "")
            /\ result[p].Silent <=> wrote[p]

\* an edit whose write failed returned an error while an append succeeded
SilentOnSuccessWitness ==
    \E p \in Procs, q \in Procs :
        /\ pc[p] = "done" /\ call[p].op = "edit"
        /\ result[p] = ErrorResult("failed to write file", 0) /\ ~wrote[p]
        /\ pc[q] = "done" /\ call[q].op = "append" /\ Succeeded(q) /\ wrote[q]

\* C15: a tool call whose path resolves outside the allowed directory never
\* reaches the lock manager: it acquires no lock, the registry gets no entry,
\* no file is read or changed, and it returns an error
SandboxBeforeLock ==
    \A p \in Procs :
        (IsTool(call[p]) /\ MissingKeys(p) = {} /\ OutsideRoot(p)) =>
            /\ Untouched(p)
            /\ pc[p] = "done" => (~result[p].nil /\ result[p].IsError)

\* a tool call on a path outside the allowed directory has returned
SandboxBeforeLockWitness ==
    \E p \in Procs :
        /\ pc[p] = "done" /\ IsTool(call[p]) /\ MissingKeys(p) = {} /\ OutsideRoot(p)
        /\ result[p].IsError /\ fs0[F].exists

\* C16: a tool call whose args map lacks a required key never reaches the
\* path validation, the lock manager or a file, and returns the "is required"
\* error of a missing key
MissingArgRejected ==
    \A p \in Procs :
        (IsTool(call[p]) /\ MissingKeys(p) # {}) =>
            /\ Untouched(p)
            /\ rpath[p] = AbsP(<<>>)
            /\ pc[p] = "done" =>
                  /\ result[p].IsError
                  /\ \E k \in MissingKeys(p) : result[p].ForLLM = k \o " is required"

\* an edit without old_text, on a path outside the allowed directory, returned
\* the error of the missing key
MissingArgRejectedWitness ==
    \E p \in Procs :
        /\ pc[p] = "done" /\ call[p].op = "edit" /\ OutsideRoot(p)
        /\ MissingKeys(p) = {"old_text"}
        /\ result[p] = ErrorResult("old_text is required", 0)

\* C17: an edit whose old_text is not the content it finds under the lock
\* fails and writes nothing; when all goroutines have returned the file holds
\* "Counter: N", N the number of edits that succeeded since "Counter: 0", and
\* N is at least 1
StaleEditFails ==
    /\ \A p \in Procs :
          (pc[p] = "done" /\ EditOn(p, F) /\ content[p] # call[p].a) =>
              (~Succeeded(p) /\ ~wrote[p])
    /\ AllDone =>
          LET N == Sscanf(fs0[F].data) + Cardinality(Successes)
          IN  fs[F] = FileWith(Sprintf(N)) /\ N >= 1

\* Supporting fact for C17: an edit whose old_text does not occur in the
\* content it finds under the lock fails and writes nothing
AbsentEditFails ==
    \A p \in Procs :
        (/\ pc[p] = "done" /\ EditOn(p, F) /\ lk[p] # 0
         /\ Occurrences(content[p], call[p].a) = 0) =>
            (~Succeeded(p) /\ ~wrote[p] /\ result[p].IsError)

\* C18: when the calls on a file are edits with the same old_text X and
\* new_text Y, and appends, X occurring once in the initial content and in
\* neither Y nor a payload, then exactly one edit succeeds, the others get the
\* "old_text not found" error, every append succeeds, and the file holds the
\* initial content with Y for X followed by the payloads in lock order
OneEditWins ==
    AllDone =>
        LET E == {p \in Procs : EditOn(p, F)}
            A == {p \in Procs : AppendOn(p, F)}
        IN  (/\ E # {} /\ E \cup A = Procs
             /\ \A p \in E, q \in E : call[p].a = call[q].a /\ call[p].b = call[q].b
             /\ \A p \in E :
                   /\ Occurrences(fs0[F].data, call[p].a) = 1
                   /\ Occurrences(call[p].b, call[p].a) = 0
                   /\ \A q \in A : Occurrences(call[q].a, call[p].a) = 0) =>
                /\ Cardinality(E \cap Successes) = 1
                /\ \A p \in E \ Successes :
                      result[p] = ErrorResult("old_text not found in file", 0)
                /\ A \subseteq Successes
                /\ \A p \in E :
                      fs[F] = FileWith(Replace(fs0[F].data, call[p].a, call[p].b)
                                       \o AppendPayloads(acquired, F))

\* C20: every call locks through the same manager, so the bodies of an edit,
\* an append, a WriteLongTerm and an AppendToday on one file never overlap,
\* and each file ends as some one-after-another run of its calls leaves it
GlobalManagerExcludes ==
    /\ \A p \in Procs, q \in Procs : flm[p] = flm[q]
    /\ \A p \in Procs, q \in Procs :
          (p # q /\ InBody(p) /\ Holding(q)) => CallFile(p) # CallFile(q)
    /\ AllDone => \A f \in Files : fs[f] \in SerialFinals(f)

\* a MemoryStore call waits in lock.Lock() while a tool runs its body on the
\* same file, spelled differently
GlobalManagerExcludesWitness ==
    \E p \in Procs, q \in Procs :
        /\ call[p].op \in {"WriteLongTerm", "AppendToday"} /\ IsTool(call[q])
        /\ InBody(q) /\ Waiting(p) /\ mutexes[lk[p]] /\ lk[p] = lk[q]
        /\ call[p].path # call[q].path

\* C19: the body of every WithLock call is entered once, never again; a
\* direct caller gets the body's return value (its error, or nil); the tools
\* get nil from WithLock and never return the lock error
WithLockReturnsBodyValue ==
    \A p \in Procs :
        /\ BodyRuns(p) <= 1
        /\ (Finished(p) /\ lk[p] # 0) => BodyRuns(p) = 1
        /\ (pc[p] = "done" /\ call[p].op = "withlock") => ret[p] = BodyValue(p)
        /\ (pc[p] = "done" /\ IsTool(call[p]) /\ lk[p] # 0) =>
              (ret[p] = "nil" /\ result[p].ForLLM # "lock error")

\* one body returned its own error, another returned the error of its write
WithLockReturnsBodyValueWitness ==
    \E p \in Procs, q \in Procs :
        /\ pc[p] = "done" /\ call[p].body = "err" /\ ret[p] = "err"
        /\ pc[q] = "done" /\ call[q].body = "rmw" /\ ret[q] = "err" /\ ~wrote[q]

-----------------------------------------------------------------------------
(* The lock registry *)

\* the goroutines that hold a Lock returned by getLock for the entry e
Receivers(e) == {p \in Procs : lk[p] # 0 /\ Entry(p) = e}

\* C24: the registry only grows: no step removes an entry or replaces its
\* Lock, and the Lock a caller got from getLock is the Lock of its entry
RegistryOnlyGrows ==
    /\ [][\A e \in DOMAIN locks : e \in DOMAIN locks' /\ locks'[e] = locks[e]]_vars
    /\ [](\A p \in Procs :
            lk[p] # 0 => (Entry(p) \in DOMAIN locks /\ locks[Entry(p)] = lk[p]))

\* after one caller has finished with a path, a later caller found the entry
\* and got the same Lock
RegistryOnlyGrowsWitness ==
    \E p \in Procs, q \in Procs :
        /\ p # q /\ Finished(p) /\ pc[q] = "Lock.mutex" /\ exists[q]
        /\ lk[p] = lk[q] /\ lk[q] # 0 /\ ~mutexes[lk[q]]

\* C25: one Lock is created per canonical path, however many callers look
\* an absent path up at once: the callers of one path all hold the same Lock
OneLockPerPath ==
    /\ \A p \in Procs, q \in Procs :
          (lk[p] # 0 /\ lk[q] # 0 /\ Entry(p) = Entry(q)) => lk[p] = lk[q]
    /\ Len(mutexes) = Cardinality(DOMAIN locks)
    /\ \A e \in DOMAIN locks, f \in DOMAIN locks : locks[e] = locks[f] => e = f

\* two callers were in Lock for an absent path together: one created the
\* Lock and has not locked it yet, the other has just found it
OneLockPerPathWitness ==
    \E p \in Procs, q \in Procs :
        /\ p # q /\ pc[p] = "Lock.mutex" /\ ~exists[p]
        /\ pc[q] = "Lock.ret" /\ exists[q]
        /\ Entry(p) = Entry(q) /\ lk[p] = lk[q] /\ lk[p] # 0
        /\ ~mutexes[lk[p]] /\ Len(mutexes) = 1

\* C26: flm.mu is held only between the lookup and the return of getLock,
\* never by a goroutine that waits for a per-path lock or runs a body, and
\* its holder can always go on to release it
CoarseLockOnlyInGetLock ==
    \A m \in Managers :
        mu[m] # 0 =>
            /\ pc[mu[m]] \in {"Lock.ret", "Unlock.ret"}
            /\ flm[mu[m]] = m
            /\ ~fatal => ENABLED getLockReturn(mu[m])

\* while one caller is blocked on a locked per-path lock, the holder of that
\* lock holds flm.mu in the lookup of its Unlock
CoarseLockOnlyInGetLockWitness ==
    \E p \in Procs, q \in Procs :
        /\ p # q /\ Waiting(p) /\ mutexes[lk[p]]
        /\ pc[q] = "Unlock.ret" /\ mu[flm[q]] = q /\ lk[q] = lk[p]

\* the steps of flm.Lock(path), where a goroutine requests a per-path lock
LockPCs == {"Lock.abs", "Lock.mu", "Lock.ret", "Lock.mutex"}

\* the per-path locks that are locked
Locked == {m \in 1..Len(mutexes) : mutexes[m]}

\* C27: a tool call or MemoryStore call holds at most one per-path lock and
\* never requests a lock while it holds one: a goroutine inside flm.Lock has
\* acquired nothing, no goroutine acquires twice, and the locked locks are
\* the locks of the goroutines between Lock and Unlock, one for each
OneLockPerCaller ==
    /\ \A p \in Procs :
          /\ pc[p] \in LockPCs => BodyRuns(p) = 0
          /\ BodyRuns(p) <= 1
          /\ Holding(p) => BodyRuns(p) = 1
    /\ Locked = {lk[p] : p \in {q \in Procs : Holding(q)}}
    /\ \A p \in Procs, q \in Procs :
          (Holding(p) /\ Holding(q) /\ lk[p] = lk[q]) => p = q

\* AppendToday and a tool each hold the lock of their own file while they
\* run their bodies
OneLockPerCallerWitness ==
    \E p \in Procs, q \in Procs :
        /\ call[p].op = "AppendToday" /\ IsTool(call[q])
        /\ InBody(p) /\ InBody(q) /\ Cardinality(Locked) = 2

\* C28: in the tools the lock never fails and the result is never nil: when
\* the closure has returned, it returned nil and has assigned the result;
\* the result of a finished call is assigned and is not the lock error
NeverLockError ==
    \A p \in Procs :
        IsTool(call[p]) =>
            /\ pc[p] \in UnlockPCs => (ret[p] = "nil" /\ ~result[p].nil)
            /\ pc[p] = "done" =>
                  (~result[p].nil /\ result[p].ForLLM # "lock error")

\* a tool whose write failed under the lock returned that failure as its
\* result, and another tool returned success
NeverLockErrorWitness ==
    \E p \in Procs, q \in Procs :
        /\ IsTool(call[p]) /\ pc[p] = "done" /\ lk[p] # 0
        /\ fs[CallFile(p)].exists /\ ~wrote[p] /\ result[p].IsError
        /\ result[p].ForLLM \notin {"lock error", "file not found"}
        /\ IsTool(call[q]) /\ pc[q] = "done" /\ Succeeded(q)

\* C30: for a fixed working directory the key getLock computes is the same
\* for the same path, in Lock and in Unlock and for every caller, and
\* canonicalizing a key gives the key again, whether filepath.Abs resolved
\* the path or failed and filepath.Clean was used
CanonicalStable ==
    \A p \in Procs :
        pc[p] \in KeyedPCs =>
            /\ Canonical(cwd, key[p]) = key[p]
            /\ key[p].abs = (rpath[p].abs \/ cwd.ok)
            /\ \A q \in Procs :
                  (pc[q] \in KeyedPCs /\ rpath[q] = rpath[p]) => key[q] = key[p]
            /\ Holding(p) =>
                  (Entry(p) \in DOMAIN locks /\ locks[Entry(p)] = lk[p]
                   /\ mutexes[lk[p]])

\* Getwd fails: a rooted path was resolved by filepath.Abs and a path that
\* is not rooted was cleaned, both to keys that differ from what was passed,
\* and the second caller's Unlock has computed its key again
CanonicalStableWitness ==
    \E p \in Procs, q \in Procs :
        /\ ~cwd.ok
        /\ pc[p] \in KeyedPCs /\ rpath[p].abs /\ key[p] # rpath[p]
        /\ pc[q] = "Unlock.mu" /\ ~rpath[q].abs /\ key[q] # rpath[q]
        /\ ~key[q].abs /\ key[q].segs # <<>>

\* the result of a tool call that runs alone, from start to end, on a file
SeqResult(c, file) ==
    CASE c.op = "edit" ->
            IF ~file.exists THEN ErrorResult("file not found", 0)
            ELSE LET d == EditDecision(file.data, c.a, c.b)
                 IN  IF d.write THEN SilentResult("File edited") ELSE d.result
      [] c.op = "append" -> SilentResult("Appended")
      [] OTHER -> NilResult

\* the files and the results are those of the calls run one after another,
\* in the order in which they acquired their locks
AsIfSerial ==
    /\ \A f \in Files : fs[f] = RunInOrder(acquired, f, fs0[f])
    /\ \A i \in 1..Len(acquired) :
          LET p == acquired[i]
              f == CallFile(p)
          IN  result[p] =
                  SeqResult(call[p], RunInOrder(SubSeq(acquired, 1, i - 1), f, fs0[f]))

\* C29: a cancelled context changes nothing: a call whose context is
\* cancelled, before the call or while it waits or runs its body, still
\* returns, after entering its body once, excluded from the other bodies on
\* its file, and when all calls have returned the files and the results are
\* those of the calls run one after another
CancellationIgnored ==
    /\ \A p \in Procs :
          [](ctx[p] = "cancelled" => <>(pc[p] = "done" /\ BodyRuns(p) = 1))
    /\ [](\A p \in Procs, q \in Procs :
            (p # q /\ InBody(p) /\ Holding(q)) => CallFile(p) # CallFile(q))
    /\ [](AllDone => AsIfSerial)

\* a call whose context is cancelled has edited the file and returned
\* success; a second call whose context is cancelled acquired the lock
\* after it and is writing
CancellationIgnoredWitness ==
    \E p \in Procs, q \in Procs :
        /\ ctx[p] = "cancelled" /\ pc[p] = "done" /\ call[p].op = "edit"
        /\ Succeeded(p) /\ wrote[p]
        /\ ctx[q] = "cancelled" /\ InBody(q) /\ AcquiredBefore(p, q)
        /\ CallFile(q) = CallFile(p)

-----------------------------------------------------------------------------
(* The context cache *)

\* between cc.mu.Lock() and cc.mu.Unlock() in a method that writes
WritePCs == {"SetModel.compare", "SetModel.clear", "SetModel.tools",
             "InvalidateTools.write", "InvalidateBootstrapFiles.write",
             "InvalidateSkills.write", "ccUnlock"}

\* between cc.mu.RLock() and cc.mu.RUnlock()
ReadPCs == {"GetCurrentModel.read", "GetCacheStats.read", "ccRUnlock"}

\* p's step is the return of its call
Returns(p) == pc[p] # "done" /\ pc'[p] = "done"

\* the fields after SetModel(model) has changed the model of the fields c
AfterModelChange(c, model) ==
    [bootstrapFiles |-> << >>, skillsSummary |-> NilContent, skillsModTimes |-> << >>,
     toolsSummary |-> <<>>, toolsVersion |-> c.toolsVersion + 1, currentModel |-> model]

\* C21: SetModel(m) returns true exactly when m differs from the model the
\* cache held when the call took the lock, and then the cache at its return
\* holds m, empty caches and the tools version plus one; the change is one
\* step for every other operation: while the call is between Lock and
\* Unlock no other call is inside the cache, and every change of the
\* fields is made by the goroutine that holds the write lock
SetModelAtomic ==
    /\ [](\A p \in Procs :
            /\ (call[p].op = "SetModel" /\ pc[p] = "done") =>
                  loc[p].changed =
                      (IF loc[p].before.currentModel # call[p].a THEN "true" ELSE "false")
            /\ pc[p] \in WritePCs =>
                  /\ cc.mu.w = p /\ cc.mu.r = {}
                  /\ \A q \in Procs \ {p} : pc[q] \notin WritePCs \cup ReadPCs)
    /\ [][\A p \in Procs :
            /\ (call[p].op = "SetModel" /\ Returns(p)
                 /\ loc[p].before.currentModel # call[p].a) =>
                  Fields(cc') = AfterModelChange(loc[p].before, call[p].a)
            /\ (Fields(cc') # Fields(cc) /\ pc'[p] = pc[p]) => cc.mu.w # p /\ cc.mu.w # 0
          ]_vars

\* SetModel changed the model of a populated cache and returned true, and a
\* GetCacheStats call that ran after it has read the new model, the next
\* version and no cached content
SetModelAtomicWitness ==
    \E p \in Procs, q \in Procs :
        /\ call[p].op = "SetModel" /\ pc[p] = "done" /\ loc[p].changed = "true"
        /\ loc[p].before = Fields(Populated)
        /\ call[q].op = "GetCacheStats" /\ pc[q] = "ccRUnlock"
        /\ loc[q].stats = [bootstrap_files_cached |-> 0, skills_cached |-> FALSE,
                           tools_cached |-> FALSE,
                           tools_version |-> loc[p].before.toolsVersion + 1,
                           current_model |-> call[p].a]

\* C22: SetModel(m) with m the current model returns false and writes
\* nothing: from its Lock to its return the fields are what they were
SetModelSameKeeps ==
    \A p \in Procs :
        (call[p].op = "SetModel" /\ loc[p].locked
         /\ loc[p].before.currentModel = call[p].a) =>
            /\ pc[p] \in WritePCs => Fields(cc) = loc[p].before
            /\ pc[p] \in {"ccUnlock", "done"} => loc[p].changed = "false"
            /\ pc[p] \notin {"SetModel.clear", "SetModel.tools"}

\* SetModel with the model of a populated cache has returned false; the
\* cache holds all it held
SetModelSameKeepsWitness ==
    \E p \in Procs :
        /\ call[p].op = "SetModel" /\ pc[p] = "done" /\ loc[p].changed = "false"
        /\ call[p].a = Populated.currentModel
        /\ loc[p].before = Fields(Populated) /\ Fields(cc) = Fields(Populated)

\* C23: InvalidateTools empties the tools summary and adds one to the tools
\* version; the bootstrap files, the skills summary, the skills
\* modification times and the model are, when it unlocks, what they were
\* when it locked
InvalidateToolsFrame ==
    \A p \in Procs :
        (call[p].op = "InvalidateTools" /\ pc[p] = "ccUnlock") =>
            /\ cc.toolsSummary = <<>>
            /\ cc.toolsVersion = loc[p].before.toolsVersion + 1
            /\ cc.bootstrapFiles = loc[p].before.bootstrapFiles
            /\ cc.skillsSummary = loc[p].before.skillsSummary
            /\ cc.skillsModTimes = loc[p].before.skillsModTimes
            /\ cc.currentModel = loc[p].before.currentModel

\* InvalidateTools has written to a populated cache, which still holds its
\* bootstrap file, its skills and its model
InvalidateToolsFrameWitness ==
    \E p \in Procs :
        /\ call[p].op = "InvalidateTools" /\ pc[p] = "ccUnlock"
        /\ loc[p].before = Fields(Populated)
        /\ DOMAIN cc.bootstrapFiles # {} /\ ~cc.skillsSummary.nil
        /\ DOMAIN cc.skillsModTimes # {} /\ cc.currentModel = <<"a">>
        /\ cc.toolsSummary = <<>> /\ cc.toolsVersion = Populated.toolsVersion + 1

-----------------------------------------------------------------------------
(* The write-back of an edit *)

\* an edit has truncated f and has not yet written its new content
Truncating(p, f) ==
    call[p].op = "edit" /\ pc[p] = "WriteFile.write" /\ CallFile(p) = f

\* the steps of a body that read the file or write to it
FileAccessPCs == BodyPCs \ {"Body.run"}

\* C31: the write-back of an edit is one step for the other lock holders:
\* while an edit is between the truncation and the write of its file, no
\* other body is on that file, and no other goroutine takes a step that
\* reads the file or writes to it
WriteBackAtomic ==
    /\ [](\A p \in Procs, q \in Procs :
            (p # q /\ Truncating(p, CallFile(p))) =>
                ~(InBody(q) /\ CallFile(q) = CallFile(p)))
    /\ [][\A p \in Procs, q \in Procs :
            (/\ p # q /\ Truncating(p, CallFile(p))
             /\ pc[q] \in FileAccessPCs /\ pc'[q] # pc[q]) =>
                CallFile(q) # CallFile(p)]_vars

\* an edit has truncated the file that held content, and a caller that will
\* read and rewrite the same file waits for the lock
WriteBackAtomicWitness ==
    \E p \in Procs, q \in Procs :
        /\ p # q /\ Truncating(p, F) /\ content[p] # <<>> /\ fs[F].data = <<>>
        /\ Waiting(q) /\ lk[q] = lk[p] /\ mutexes[lk[q]]
        /\ call[q].body = "rmw" /\ CallFile(q) = F

-----------------------------------------------------------------------------
(* Overlapping matches and the empty old_text *)

\* sub occurs in s at two start positions whose occurrences share a character
Overlapping(s, sub) ==
    \E i \in 0..Len(s), j \in 0..Len(s) :
        /\ i < j /\ j < i + Len(sub)
        /\ HasPrefixAt(s, sub, i) /\ HasPrefixAt(s, sub, j)

\* C32: an edit whose old_text matches the content at two overlapping
\* places returns the "appears n times" error and leaves the file as it was
OverlapRejected ==
    \A p \in Procs :
        (/\ pc[p] = "done" /\ EditOn(p, F)
         /\ fs0[F].exists /\ Overlapping(fs0[F].data, call[p].a)) =>
            /\ result[p].IsError
            /\ result[p].ForLLM = "old_text appears %d times"
            /\ fs[F] = fs0[F]

\* C33: an edit with an empty old_text changes no file that holds content:
\* it returns the "appears n times" error; on an existing empty file it
\* succeeds and the file then holds new_text; it creates no file
EmptyOldText ==
    \A p \in Procs :
        (pc[p] = "done" /\ EditOn(p, F) /\ call[p].a = <<>>) =>
            /\ (fs0[F].exists /\ fs0[F].data # <<>>) =>
                  /\ result[p].IsError
                  /\ result[p].ForLLM = "old_text appears %d times"
                  /\ result[p].n = Len(fs0[F].data) + 1
                  /\ fs = fs0
            /\ (fs0[F].exists /\ fs0[F].data = <<>>) =>
                  (Succeeded(p) /\ fs[F] = FileWith(call[p].b) /\ fs[G] = fs0[G])
            /\ ~fs0[F].exists => (~Succeeded(p) /\ fs = fs0)

\* an edit with an empty old_text and a new_text has filled an empty file
EmptyOldTextWitness ==
    \E p \in Procs :
        /\ pc[p] = "done" /\ EditOn(p, F) /\ call[p].a = <<>> /\ call[p].b # <<>>
        /\ fs0[F] = FileWith(<<>>) /\ Succeeded(p) /\ fs[F] = FileWith(call[p].b)

-----------------------------------------------------------------------------
(* The lock that Unlock releases *)

\* C34: WithLock releases the Lock it acquired, also when the working
\* directory changes while the body runs: the Lock that Unlock looks up
\* exists, is locked and is not the Lock of another running body, no
\* Unlock hits an unlocked Lock, and when all calls have returned every
\* Lock is free
ReleasesAcquiredLock ==
    /\ ~fatal
    /\ \A p \in Procs :
          pc[p] = "Unlock.mutex" =>
              /\ exists[p] /\ mutexes[lk[p]]
              /\ \A q \in Procs \ {p} : InBody(q) => lk[q] # lk[p]
    /\ AllDone => Locked = {}

\* the contents f has before and after each of the writes of the calls on it,
\* in every order of the calls
Committed(f) ==
    {ReadString(RunInOrder(SubSeq(o, 1, k), f, fs0[f])) : o \in Orders, k \in 0..NumProcs}

\* C35: what a ReadLongTerm or a ReadToday that runs beside writers of its
\* file returns is the content of the file before or after one of the
\* writes, never the content of a file a writer has emptied or written in part
ReadsSeeWholeWrites ==
    \A p \in Procs :
        (call[p].op \in {"ReadLongTerm", "ReadToday"} /\ pc[p] = "done")
            => content[p] \in Committed(CallFile(p))

\* the contents of the calls of the goroutines in order, each after the
\* first preceded by one newline
RECURSIVE Entries(_)
Entries(order) ==
    IF order = <<>> THEN <<>>
    ELSE IF Len(order) = 1 THEN call[order[1]].a
    ELSE Entries(SubSeq(order, 1, Len(order) - 1)) \o <<"\n">> \o call[order[Len(order)]].a

\* the number of date headers in a content
Headers(data) == Cardinality({i \in 1..Len(data) : data[i] = Header[1]})

\* C36: concurrent AppendToday calls on a day without a note leave a note
\* that is one date header followed by the contents of all the calls in the
\* order in which they acquired the lock, later ones preceded by one
\* newline; the note never holds two headers
OneHeaderAllEntries ==
    /\ ~fatal
    /\ Headers(fs[G].data) <= 1
    /\ (\E p \in Procs : wrote[p]) /\ (\A q \in Procs : pc[q] # "WriteFile.write")
           => Headers(fs[G].data) = 1 /\ fs[G].data[1] = Header[1]
    /\ AllDone => fs[G] = FileWith(Header \o Entries(acquired))

OneHeaderAllEntriesWitness ==
    /\ AllDone
    /\ Len(acquired) = NumProcs
    /\ call[acquired[1]].a # call[acquired[2]].a
    /\ fs[G].exists /\ Len(fs[G].data) > Len(call[1].a) + 1

\* C37: a GetToolsSummary call that begins after invalidations of the tools
\* have returned does not return a summary generated before them: the
\* summary it returns was generated when at least as many invalidations
\* had taken effect as had returned when the call began
NoStaleToolsSummary ==
    \A p \in Procs :
        (call[p].op = "GetToolsSummary" /\ pc[p] = "done" /\ loc[p].summary # <<>>)
            => GeneratedAt(loc[p].summary) >= loc[p].since

\* C38: GetMemoryContextWithBudget never slices the long-term memory out
\* of range, whatever the text and its token estimate: no call ends in the
\* panic of a slice bound above the number of runes
SliceBoundsInRange ==
    \A p \in Procs :
        call[p].op = "GetMemoryContextWithBudget" => ~panicking[p]

\* the number of tool messages at the start of a history
Leading(history) ==
    IF \A i \in 1..Len(history) : history[i].Role = "tool" THEN Len(history)
    ELSE (CHOOSE i \in 1..Len(history) :
              /\ history[i].Role # "tool"
              /\ \A j \in 1..(i - 1) : history[j].Role = "tool") - 1

\* C39: BuildMessages returns the system message, then the history
\* without the tool messages at its start and otherwise whole and in order,
\* then the current user message; the message after the system message is
\* never a tool message
BuildMessagesShape ==
    \A p \in Procs :
        (call[p].op = "BuildMessages" /\ pc[p] = "done") =>
            LET messages == content[p]
                history == call[p].history
                k == Leading(history)
                n == Len(history) - k
            IN  /\ Len(messages) = n + 2
                /\ messages[1].Role = "system"
                /\ messages[n + 2] = buildUserMessage(call[p].currentMessage, call[p].media)
                /\ messages[n + 2].Role = "user"
                /\ \A i \in 1..n : messages[i + 1] = history[k + i]
                /\ messages[2].Role # "tool"

BuildMessagesShapeWitness ==
    \E p \in Procs :
        /\ call[p].op = "BuildMessages" /\ pc[p] = "done"
        /\ Len(call[p].history) = MaxHistory
        /\ call[p].history[1].Role = "tool"
        /\ call[p].history[2].Role # "tool"
        /\ call[p].history[3].Role = "tool"
        /\ Len(content[p]) = MaxHistory + 1

====
